---- MODULE Spec2Model ----
(***************************************************************************)
(* State-machine model of the DRM/KMS display pipeline of KWin:            *)
(* DrmPipeline (drm_pipeline.cpp) driving DrmObject property cells         *)
(* (drm_object.h / drm_object.cpp).  One GPU, two pipelines; the kernel is *)
(* an environment that accepts or rejects every ioctl nondeterministically.*)
(* All pipeline operations run on one display thread, so every public      *)
(* operation is one atomic action.                                         *)
(***************************************************************************)
EXTENDS Integers, Sequences, FiniteSets, TLC

\* ------------------------------------------------------------------ bounds
\* number of distinct client buffers the compositor presents
NumBuffers == 2
\* number of public operations (and kernel events) in one behaviour
MaxOps == 2
\* number of calls in one behaviour of the cursor operations
MaxCursorOps == 3

\* ---------------------------------------------------------------- universe
Pipes == {1, 2}
\* the pipeline that drives a tiled display when the GPU allows it
TiledPipe == CHOOSE p \in Pipes : \A q \in Pipes : q <= p
ModeIndices == {0, 1}

VARIABLES
    gpu,                 \* DrmGpu capabilities, fixed after construction
    caps,                \* optional properties the connectors and CRTCs have, fixed
    active,              \* m_active
    primaryBuffer,       \* m_primaryBuffer
    oldTestBuffer,       \* m_oldTestBuffer
    legacyNeedsModeset,  \* m_legacyNeedsModeset
    lastFlags,           \* m_lastFlags
    cursor,              \* m_cursor
    props,               \* DrmObject::m_props: cell -> [pending, next, current]
    modeIndex,           \* DrmConnector::m_modeIndex
    pendingModeIndex,    \* DrmConnector::m_pendingModeIndex
    bufCurrent,          \* current buffer slot of every CRTC and plane
    bufNext,             \* next buffer slot of every CRTC and plane
    kern,                \* the kernel's own value of every property
    pendingFlips,        \* kernel: page-flip events queued for every pipeline
    log,                 \* kernel calls and property refreshes of the last operation
    last,                \* the last operation: name, pipeline, arguments, result
    surface,             \* one GbmSurface and the buffers it locked
    pc,                  \* display thread: "idle" in its event loop, "returned" from an operation
    ops                  \* operations performed so far

vars == <<gpu, caps, active, primaryBuffer, oldTestBuffer, legacyNeedsModeset, lastFlags,
          cursor, props, modeIndex, pendingModeIndex, bufCurrent, bufNext, kern,
          pendingFlips, log, last, surface, pc, ops>>

\* ------------------------------------------------------------------ objects
\* DrmPipeline::addOutput: one (connector, crtc, plane) triple per tile; a
\* pipeline has more than one tile only with atomic modesetting and without
\* EGLStreams, and primary planes exist only with atomic modesetting.
TileCount(p) == IF gpu.tiled /\ p = TiledPipe THEN 2 ELSE 1
Tiles(p) == 1..TileCount(p)
Connectors(p) == {<<"conn", p, i>> : i \in Tiles(p)}
Crtcs(p) == {<<"crtc", p, i>> : i \in Tiles(p)}
PrimaryPlanes(p) == IF gpu.atomic THEN {<<"plane", p, i>> : i \in Tiles(p)} ELSE {}
AllObjects(p) == Connectors(p) \cup Crtcs(p) \cup PrimaryPlanes(p)
Conn(p, i) == <<"conn", p, i>>
Crtc(p, i) == <<"crtc", p, i>>
Plane(p, i) == <<"plane", p, i>>
\* DrmObject::id
ObjId(o) == (IF o[1] = "conn" THEN 100 ELSE IF o[1] = "crtc" THEN 200 ELSE 300)
            + 10 * o[2] + o[3]

ConnProps == {"CrtcId", "Dpms"}
CrtcProps == {"Active", "ModeId"}
PlaneProps == {"CrtcId", "FbId", "Rotation", "SrcX", "SrcY", "SrcW", "SrcH",
               "CrtcX", "CrtcY", "CrtcW", "CrtcH"}
\* the underscan triple of a connector that can compensate overscan
UnderscanProps == {"Underscan", "UnderscanVborder", "UnderscanHborder"}
\* DrmConnector::hasOverscan
ConnHasOverscan(c) == c \in caps.overscan
\* DrmConnector::vrrCapable
ConnVrrCapable(c) == c \in caps.vrrCapable
\* DrmCrtc::getProp(VrrEnabled) is not null
HasVrrProp(c) == c \in caps.vrrProp
\* DrmConnector::getProp(Broadcast_RGB) is not null
HasRgbRange(c) == c \in caps.rgbRange
PropsOf(o) == IF o[1] = "conn"
              THEN ConnProps \cup (IF ConnHasOverscan(o) THEN UnderscanProps ELSE {})
                             \cup (IF HasRgbRange(o) THEN {"Broadcast_RGB"} ELSE {})
                             \cup (IF o \in caps.edid THEN {"Edid"} ELSE {})
              ELSE IF o[1] = "crtc"
              THEN CrtcProps \cup (IF HasVrrProp(o) THEN {"VrrEnabled"} ELSE {})
                             \cup (IF o \in caps.gammaLut THEN {"GammaLut"} ELSE {})
              ELSE PlaneProps
CellsOf(o) == {<<o, n>> : n \in PropsOf(o)}
\* DrmObject::Property::isImmutable: the kernel flags the property
\* DRM_MODE_PROP_IMMUTABLE, as it does for a connector's EDID blob
IsImmutable(cell) == cell[2] = "Edid"
PipeCells(p) == UNION {CellsOf(o) : o \in AllObjects(p)}
AllCells == UNION {PipeCells(p) : p \in Pipes}
BufferSlots == UNION {Crtcs(p) \cup PrimaryPlanes(p) : p \in Pipes}

\* ------------------------------------------------------------------ buffers
\* A DrmBuffer: its framebuffer id (bufferId), its size and pixel format.
NoBuffer == [fb |-> 0, size |-> <<0, 0>>, fmt |-> "none"]
ClientFbs == 1..NumBuffers
FormatOf(fb) == IF fb % 2 = 1 THEN "XR24" ELSE "AR24"

\* ------------------------------------------------------- transformations
TransformFlags == {"Rotate0", "Rotate90", "Rotate180", "Rotate270", "ReflectX", "ReflectY"}
\* DrmPlane::Transformation: one bit per flag
FlagBit(f) == CASE f = "Rotate0" -> 1 [] f = "Rotate90" -> 2 [] f = "Rotate180" -> 4
                [] f = "Rotate270" -> 8 [] f = "ReflectX" -> 16 [] f = "ReflectY" -> 32
RECURSIVE TransformValue(_)
\* the 64-bit property value of a set of transformation flags
TransformValue(t) == IF t = {} THEN 0
                     ELSE LET f == CHOOSE x \in t : TRUE
                          IN FlagBit(f) + TransformValue(t \ {f})
\* the flags a property value holds
TransformOf(v) == {f \in TransformFlags : (v \div FlagBit(f)) % 2 = 1}

\* -------------------------------------------------------------- connector
\* DrmConnector::Mode::size of the connector's own tile
ModeSize(m) == IF m = 0 THEN <<4, 3>> ELSE <<2, 1>>
Transposed(size) == <<size[2], size[1]>>
\* DrmConnector::tilingInfo of tile i of pipeline p: a row of TileCount(p) tiles
TilesX(p) == TileCount(p)
TilesY(p) == 1
\* DrmConnector::totalModeSize
TotalModeSize(p, m) == <<ModeSize(m)[1] * TilesX(p), ModeSize(m)[2] * TilesY(p)>>
\* DrmConnector::modeIndex
ConnModeIndex(S, c) == S.pendingModeIndex[c]
\* DrmConnector::currentMode().size
CurrentModeSize(S, c) == ModeSize(ConnModeIndex(S, c))
\* DrmConnector::tilePos
TilePos(S, c) == <<(c[3] - 1) * CurrentModeSize(S, c)[1], 0>>

\* ------------------------------------------------------------ program state
\* the mutable program state as one record, threaded through the operators
Cur == [active |-> active, primaryBuffer |-> primaryBuffer,
        oldTestBuffer |-> oldTestBuffer, legacyNeedsModeset |-> legacyNeedsModeset,
        lastFlags |-> lastFlags, cursor |-> cursor, props |-> props,
        modeIndex |-> modeIndex, pendingModeIndex |-> pendingModeIndex,
        bufCurrent |-> bufCurrent, bufNext |-> bufNext, kern |-> kern,
        pendingFlips |-> pendingFlips, log |-> <<>>]

Store(S) ==
    /\ active' = S.active
    /\ primaryBuffer' = S.primaryBuffer
    /\ oldTestBuffer' = S.oldTestBuffer
    /\ legacyNeedsModeset' = S.legacyNeedsModeset
    /\ lastFlags' = S.lastFlags
    /\ cursor' = S.cursor
    /\ props' = S.props
    /\ modeIndex' = S.modeIndex
    /\ pendingModeIndex' = S.pendingModeIndex
    /\ bufCurrent' = S.bufCurrent
    /\ bufNext' = S.bufNext
    /\ kern' = S.kern
    /\ pendingFlips' = S.pendingFlips
    /\ log' = S.log

Result(S, r) == [st |-> S, ret |-> r]

\* one kernel call (or property refresh) of the log
Call(kind, ok, arg) == [kind |-> kind, ok |-> ok, arg |-> arg]
Logged(S, c) == [S EXCEPT !.log = Append(S.log, c)]

\* ----------------------------------------------------------- property cells
\* DrmObject::Property::setPending (through DrmObject::setPending)
SetPending(S, cell, v) == [S EXCEPT !.props[cell].pending = v]
\* DrmObject::setPending: true iff the object has the property
ObjectSetPending(S, o, prop, v) ==
    IF prop \in PropsOf(o) THEN Result(SetPending(S, <<o, prop>>, v), TRUE)
    ELSE Result(S, FALSE)
\* DrmObject::Property::setCurrent
SetCurrent(S, cell, v) == [S EXCEPT !.props[cell].current = v]
\* DrmObject::Property::needsCommit
PropNeedsCommit(S, cell) == S.props[cell].pending # S.props[cell].current
\* DrmObject::needsCommit: some cell of the object needs a commit
NeedsCommit(S, o) == \E cell \in CellsOf(o) : PropNeedsCommit(S, cell)
\* DrmObject::needsModeset, per kind: the mode-affecting cells
NeedsModeset(S, o) ==
    CASE o[1] = "conn" -> PropNeedsCommit(S, <<o, "CrtcId">>)
      [] o[1] = "crtc" -> PropNeedsCommit(S, <<o, "Active">>) \/ PropNeedsCommit(S, <<o, "ModeId">>)
      [] OTHER -> PropNeedsCommit(S, <<o, "Rotation">>)
\* DrmObject::commitPending on every object of a set: next <- pending; a
\* connector also adopts its pending mode index
CommitPendingAll(S, objs) ==
    [S EXCEPT !.props = [c \in DOMAIN S.props |->
                            LET cell == S.props[c]
                            IN IF c[1] \in objs THEN [cell EXCEPT !.next = cell.pending]
                               ELSE cell],
              !.modeIndex = [c \in DOMAIN S.modeIndex |->
                            IF c \in objs THEN S.pendingModeIndex[c] ELSE S.modeIndex[c]]]
\* DrmObject::rollbackPending on every object of a set: pending <- current; a
\* connector also restores its pending mode index
RollbackPendingAll(S, objs) ==
    [S EXCEPT !.props = [c \in DOMAIN S.props |->
                            LET cell == S.props[c]
                            IN IF c[1] \in objs THEN [cell EXCEPT !.pending = cell.current]
                               ELSE cell],
              !.pendingModeIndex = [c \in DOMAIN S.pendingModeIndex |->
                            IF c \in objs THEN S.modeIndex[c] ELSE S.pendingModeIndex[c]]]
\* DrmObject::commit on every object of a set: current <- next
CommitAll(S, objs) ==
    [S EXCEPT !.props = [c \in DOMAIN S.props |->
                            LET cell == S.props[c]
                            IN IF c[1] \in objs THEN [cell EXCEPT !.current = cell.next]
                               ELSE cell]]
\* DrmObject::atomicPopulate: the (cell, value) pairs an object adds to a request
AtomicPopulate(S, o) == {<<cell, S.props[cell].pending>> : cell \in {c \in CellsOf(o) : PropNeedsCommit(S, c)}}
\* DrmObject::updateProperties on every object of a set: current <- kernel value
UpdatePropertiesAll(S, objs) ==
    [S EXCEPT !.props = [c \in DOMAIN S.props |->
                            IF c[1] \in objs THEN [S.props[c] EXCEPT !.current = S.kern[c]]
                            ELSE S.props[c]]]

\* --------------------------------------------------------------- overscan
\* DrmConnector::overscan: the staged border, 0 without the property
ConnOverscan(S, c) ==
    IF ConnHasOverscan(c) THEN S.props[<<c, "UnderscanVborder">>].pending ELSE 0
\* DrmConnector::setOverscan: underscan on or off, the vertical border and the
\* horizontal one scaled by the aspect ratio of the mode; no effect without
\* the property
ConnSetOverscan(S, c, overscan, modeSize) ==
    IF ~ConnHasOverscan(c) THEN S
    ELSE [S EXCEPT !.props[<<c, "Underscan">>].pending = IF overscan > 0 THEN 1 ELSE 0,
                   !.props[<<c, "UnderscanVborder">>].pending = overscan,
                   !.props[<<c, "UnderscanHborder">>].pending =
                        (overscan * modeSize[1]) \div modeSize[2]]

\* ------------------------------------------------------------------- plane
\* DrmPlane::transformation: the flags of the rotation cell
PlaneTransformation(S, pl) == TransformOf(S.props[<<pl, "Rotation">>].pending)
\* DrmPlane::set: source rectangle in 16.16 fixed point, destination in pixels
PlaneSet(S, pl, srcPos, srcSize, dstPos, dstSize) ==
    LET v == [n \in {"SrcX", "SrcY", "SrcW", "SrcH", "CrtcX", "CrtcY", "CrtcW", "CrtcH"} |->
                CASE n = "SrcX" -> srcPos[1] * 65536 [] n = "SrcY" -> srcPos[2] * 65536
                  [] n = "SrcW" -> srcSize[1] * 65536 [] n = "SrcH" -> srcSize[2] * 65536
                  [] n = "CrtcX" -> dstPos[1] [] n = "CrtcY" -> dstPos[2]
                  [] n = "CrtcW" -> dstSize[1] [] n = "CrtcH" -> dstSize[2]]
    IN [S EXCEPT !.props = [c \in DOMAIN S.props |->
                              IF c[1] = pl /\ c[2] \in DOMAIN v
                              THEN [S.props[c] EXCEPT !.pending = v[c[2]]]
                              ELSE S.props[c]]]
\* DrmPlane::setBuffer: FB_ID <- the buffer's framebuffer id, 0 for no buffer
PlaneSetBuffer(S, pl, buf) == SetPending(S, <<pl, "FbId">>, buf.fb)
\* DrmPlane::setNext / DrmCrtc::setNext
SetNext(S, o, buf) == [S EXCEPT !.bufNext[o] = buf]
\* DrmCrtc::setCurrent
SetCurrentBuffer(S, o, buf) == [S EXCEPT !.bufCurrent[o] = buf]
\* DrmCrtc::flipBuffer / DrmPlane::flipBuffer on every object of a set:
\* current <- next, next released
FlipBuffers(S, objs) ==
    [S EXCEPT !.bufCurrent = [o \in DOMAIN S.bufCurrent |->
                                 IF o \in objs THEN S.bufNext[o] ELSE S.bufCurrent[o]],
              !.bufNext = [o \in DOMAIN S.bufNext |->
                                 IF o \in objs THEN NoBuffer ELSE S.bufNext[o]]]

\* ----------------------------------------------------------------- pipeline
\* DrmPipeline::transformation
Transformation(S, p) ==
    IF PrimaryPlanes(p) # {} THEN PlaneTransformation(S, Plane(p, 1)) ELSE {"Rotate0"}
\* DrmPipeline::modeIndex
ModeIndex(S, p) == ConnModeIndex(S, Conn(p, 1))
\* DrmPipeline::rotated
Rotated(S, p, size) ==
    IF Transformation(S, p) \cap {"Rotate90", "Rotate270"} # {} THEN Transposed(size) ELSE size
\* sourceSize with a slip: Rotate270 is forgotten
SourceSizeRotate90Only(S, p) ==
    LET size == TotalModeSize(p, ModeIndex(S, p))
    IN IF "Rotate90" \in Transformation(S, p) THEN Transposed(size) ELSE size
\* DrmPipeline::sourceSize
SourceSize(S, p) ==
    LET size == TotalModeSize(p, ModeIndex(S, p))
    IN IF Transformation(S, p) \cap {"Rotate90", "Rotate270"} # {} THEN Transposed(size) ELSE size
\* m_gpu->useEglStreams() && m_gpu->eglBackend() != nullptr && m_gpu == primaryGpu
UsesEglStreams == gpu.useEglStreams /\ gpu.eglBackend /\ gpu.primaryGpu


\* ------------------------------------------------------------ kernel ids
\* framebuffer ids in use by some buffer the program holds
FbsInUse(S) ==
    {S.primaryBuffer[p].fb : p \in Pipes} \cup {S.oldTestBuffer[p].fb : p \in Pipes}
    \cup {S.bufCurrent[o].fb : o \in BufferSlots} \cup {S.bufNext[o].fb : o \in BufferSlots}
\* the kernel hands out the lowest framebuffer id that is free (client buffers
\* keep theirs)
NewFbId(S) == CHOOSE n \in (NumBuffers + 1)..(NumBuffers + 1 + Cardinality(FbsInUse(S))) :
                /\ n \notin FbsInUse(S)
                /\ \A m \in (NumBuffers + 1)..n : m = n \/ m \in FbsInUse(S)
\* property blob ids referenced by a cell or by the kernel
BlobsInUse(S) ==
    UNION {{S.props[c].pending, S.props[c].next, S.props[c].current, S.kern[c]} :
             c \in {x \in DOMAIN S.props : x[2] \in {"ModeId", "GammaLut"}}}
\* drmModeCreatePropertyBlob: the lowest blob id that is free
NewBlobId(S) == CHOOSE n \in 1..(1 + Cardinality(BlobsInUse(S))) :
                  /\ n \notin BlobsInUse(S)
                  /\ \A m \in 1..n : m = n \/ m \in BlobsInUse(S)
\* DrmCrtc::setPendingBlob: a fresh blob id for the data, 0 for no data
SetPendingBlob(S, cell, hasData) == SetPending(S, cell, IF hasData THEN NewBlobId(S) ELSE 0)

\* ------------------------------------------------------- kernel outcomes
\* where one commit attempt fails: nowhere, in drmModeAtomicAlloc, in the
\* test-buffer allocation of test() ("tbuf0") or of pipeline p in
\* commitPipelines ("tbuf"), in drmModeAtomicAddProperty for pipeline p
\* ("populate"), in the TEST_ONLY ioctl or in the real commit ioctl
NoFail == [at |-> "none", p |-> 0]
CommitFails == {NoFail} \cup [at : {"alloc", "test", "commit"}, p : {0}]
               \cup [at : {"tbuf", "populate"}, p : Pipes]
TestFails == CommitFails \cup {[at |-> "tbuf0", p |-> 0]}
\* the legacy path: the test-buffer allocation or drmModeSetCrtc of pipeline
\* p's modeset, or drmModePageFlip
LegacyFails == {NoFail} \cup [at : {"tbuf", "setcrtc"}, p : Pipes]
               \cup {[at |-> "pageflip", p |-> 0]}
\* the second attempt of a retry either fails where the first did or passes
Retry(f, heal) == IF heal THEN NoFail ELSE f

\* checkTestBuffer with a slip: the buffer it replaces is not kept
CheckTestBufferDropsOld(S, p, ok) ==
    IF S.primaryBuffer[p] # NoBuffer /\ S.primaryBuffer[p].size = SourceSize(S, p)
    THEN Result(S, TRUE)
    ELSE IF ~S.active[p] THEN Result(S, TRUE)
    ELSE IF ok
    THEN Result([S EXCEPT !.primaryBuffer[p] = [fb |-> NewFbId(S), size |-> SourceSize(S, p),
                                                fmt |-> "XR24"]], TRUE)
    ELSE Result(S, FALSE)
\* which allocator checkTestBuffer asks for the buffer: the EGL backend's test
\* frame with a backend and an output, a GBM buffer object with a backend and
\* a GBM device, a dumb buffer otherwise
TestBufferStrategy(hasOutput, hasGbm) ==
    IF gpu.eglBackend /\ hasOutput THEN "renderTestFrame"
    ELSE IF gpu.eglBackend /\ hasGbm THEN "gbm_bo_create"
    ELSE "DrmDumbBuffer"
\* --------------------------------------------------------- checkTestBuffer
\* DrmPipeline::checkTestBuffer; ok: the backend / GBM / dumb allocation yields
\* a buffer with a framebuffer id
CheckTestBuffer(S, p, ok) ==
    IF S.primaryBuffer[p] # NoBuffer /\ S.primaryBuffer[p].size = SourceSize(S, p)
    THEN Result(S, TRUE)
    ELSE IF ~S.active[p] THEN Result(S, TRUE)
    ELSE IF ok
    THEN Result([S EXCEPT !.oldTestBuffer[p] = S.primaryBuffer[p],
                          !.primaryBuffer[p] = [fb |-> NewFbId(S), size |-> SourceSize(S, p),
                                                fmt |-> "XR24"]], TRUE)
    ELSE Result(S, FALSE)

\* ---------------------------------------------------- populateAtomicValues
RECURSIVE StagePlanesAlways(_, _, _)
\* the loop over the tiles with a slip: the framebuffer is staged whether or
\* not the pipeline is active
StagePlanesAlways(S, p, i) ==
    IF i > TileCount(p) THEN S
    ELSE LET SetBuffer(S1) == PlaneSetBuffer(S1, Plane(p, i), S1.primaryBuffer[p])
             Set(modeSize) ==
                 PlaneSet(S, Plane(p, i), TilePos(S, Conn(p, i)), Rotated(S, p, modeSize),
                          <<0, 0>>, modeSize)
         IN StagePlanesAlways(SetBuffer(Set(CurrentModeSize(S, Conn(p, i)))), p, i + 1)

RECURSIVE StagePlanesFromOrigin(_, _, _)
\* the loop over the tiles with another slip: every plane reads from the
\* origin of the buffer, as setup stages it
StagePlanesFromOrigin(S, p, i) ==
    IF i > TileCount(p) THEN S
    ELSE LET SetBuffer(S1) ==
                 PlaneSetBuffer(S1, Plane(p, i),
                                IF S1.active[p] THEN S1.primaryBuffer[p] ELSE NoBuffer)
             Set(modeSize) ==
                 PlaneSet(S, Plane(p, i), <<0, 0>>, Rotated(S, p, modeSize),
                          <<0, 0>>, modeSize)
         IN StagePlanesFromOrigin(SetBuffer(Set(CurrentModeSize(S, Conn(p, i)))), p, i + 1)
RECURSIVE StagePlanes(_, _, _)
\* the loop over the tiles of populateAtomicValues: source and destination
\* rectangle and the framebuffer of every primary plane
StagePlanes(S, p, i) ==
    IF i > TileCount(p) THEN S
    ELSE LET SetBuffer(S1) ==
                 PlaneSetBuffer(S1, Plane(p, i),
                                IF S1.active[p] THEN S1.primaryBuffer[p] ELSE NoBuffer)
             Set(modeSize) ==
                 PlaneSet(S, Plane(p, i), TilePos(S, Conn(p, i)), Rotated(S, p, modeSize),
                          <<0, 0>>, modeSize)
         IN StagePlanes(SetBuffer(Set(CurrentModeSize(S, Conn(p, i)))), p, i + 1)

\* populateAtomicValues with a slip: the page-flip event is asked for whether
\* or not the pipeline is active
PopulateAtomicValuesAlwaysEvent(acc, p, ok) ==
    LET Populated(S, flags) ==
            [st |-> S, flags |-> flags,
             req |-> acc.req \cup UNION {AtomicPopulate(S, o) : o \in AllObjects(p)},
             ret |-> ok]
        Staged(flags) ==
            Populated(StagePlanes([acc.st EXCEPT !.lastFlags[p] = flags], p, 1), flags)
        Flagged(flags) ==
            Staged(IF \E o \in AllObjects(p) : NeedsModeset(acc.st, o)
                   THEN flags \cup {"ALLOW_MODESET"} ELSE flags \cup {"NONBLOCK"})
    IN Flagged(IF ~UsesEglStreams THEN acc.flags \cup {"PAGE_FLIP_EVENT"} ELSE acc.flags)
\* DrmPipeline::populateAtomicValues; acc = [st, flags, req]; ok: every
\* drmModeAtomicAddProperty succeeds
PopulateAtomicValues(acc, p, ok) ==
    LET Populated(S, flags) ==
            [st |-> S, flags |-> flags,
             req |-> acc.req \cup UNION {AtomicPopulate(S, o) : o \in AllObjects(p)},
             ret |-> ok]
        Staged(flags) ==
            Populated(StagePlanes([acc.st EXCEPT !.lastFlags[p] = flags], p, 1), flags)
        Flagged(flags) ==
            Staged(IF \E o \in AllObjects(p) : NeedsModeset(acc.st, o)
                   THEN flags \cup {"ALLOW_MODESET"} ELSE flags \cup {"NONBLOCK"})
    IN Flagged(IF ~UsesEglStreams /\ acc.st.active[p] THEN acc.flags \cup {"PAGE_FLIP_EVENT"}
               ELSE acc.flags)

\* --------------------------------------------------------- commitPipelines
RECURSIVE PopulateLoop(_, _, _)
\* the loop of commitPipelines over the batch: checkTestBuffer, then
\* populateAtomicValues, stopping at the first failure
PopulateLoop(acc, ps, f) ==
    IF ps = <<>> \/ ~acc.ret THEN acc
    ELSE LET Checked(tb) ==
                 IF ~tb.ret THEN [acc EXCEPT !.ret = FALSE]
                 ELSE PopulateLoop(PopulateAtomicValues([acc EXCEPT !.st = tb.st], Head(ps),
                                                        ~(f.at = "populate" /\ f.p = Head(ps))),
                                   Tail(ps), f)
         IN Checked(CheckTestBuffer(acc.st, Head(ps), ~(f.at = "tbuf" /\ f.p = Head(ps))))

SeqToSet(s) == {s[i] : i \in DOMAIN s}
BatchObjects(ps) == UNION {AllObjects(p) : p \in SeqToSet(ps)}

\* the failed lambda of commitPipelines: restore a kept test buffer and roll
\* every object of the batch back
Failed(S, ps) ==
    RollbackPendingAll(
        [S EXCEPT !.primaryBuffer = [p \in Pipes |->
                      IF p \in SeqToSet(ps) /\ S.oldTestBuffer[p] # NoBuffer
                      THEN S.oldTestBuffer[p] ELSE S.primaryBuffer[p]],
                  !.oldTestBuffer = [p \in Pipes |->
                      IF p \in SeqToSet(ps) /\ S.oldTestBuffer[p] # NoBuffer
                      THEN NoBuffer ELSE S.oldTestBuffer[p]]],
        BatchObjects(ps))

\* the success path with a slip: only the first pipeline of the batch adopts
\* its values
SucceededFirstOnly(S, ps, mode) ==
    LET Commit(S2) ==
            IF mode = "Test" THEN S2
            ELSE CommitAll([S2 EXCEPT !.bufNext = [o \in BufferSlots |->
                                IF o[1] = "plane" /\ o[2] = Head(ps)
                                THEN S2.primaryBuffer[o[2]] ELSE S2.bufNext[o]]],
                           AllObjects(Head(ps)))
    IN Commit(CommitPendingAll(
                  [S EXCEPT !.oldTestBuffer = [p \in Pipes |->
                                IF p = Head(ps) THEN NoBuffer ELSE S.oldTestBuffer[p]]],
                  AllObjects(Head(ps))))

\* the success path with another slip: a test commits the objects too
SucceededCommitsTested(S, ps, mode) ==
    LET Commit(S2) ==
            CommitAll(IF mode = "Test" THEN S2
                      ELSE [S2 EXCEPT !.bufNext = [o \in BufferSlots |->
                                IF o[1] = "plane" /\ o[2] \in SeqToSet(ps)
                                THEN S2.primaryBuffer[o[2]] ELSE S2.bufNext[o]]],
                      BatchObjects(ps))
    IN Commit(CommitPendingAll(
                  [S EXCEPT !.oldTestBuffer = [p \in Pipes |->
                                IF p \in SeqToSet(ps) THEN NoBuffer ELSE S.oldTestBuffer[p]]],
                  BatchObjects(ps)))
\* the success path of commitPipelines
Succeeded(S, ps, mode) ==
    LET Commit(S2) ==
            IF mode = "Test" THEN S2
            ELSE CommitAll([S2 EXCEPT !.bufNext = [o \in BufferSlots |->
                                IF o[1] = "plane" /\ o[2] \in SeqToSet(ps)
                                THEN S2.primaryBuffer[o[2]] ELSE S2.bufNext[o]]],
                           BatchObjects(ps))
    IN Commit(CommitPendingAll(
                  [S EXCEPT !.oldTestBuffer = [p \in Pipes |->
                                IF p \in SeqToSet(ps) THEN NoBuffer ELSE S.oldTestBuffer[p]]],
                  BatchObjects(ps)))

\* what a drmModeAtomicCommit call carries: its flags, the batch, the commit
\* mode it serves, the request and, per pipeline, what populateAtomicValues
\* staged from
AtomicCall(S, ps, mode, flags, req, ok) ==
    Call("AtomicCommit", ok,
         [flags |-> flags, batch |-> ps, mode |-> mode, req |-> req,
          fb |-> [pl \in UNION {PrimaryPlanes(p) : p \in SeqToSet(ps)} |->
                    S.props[<<pl, "FbId">>].pending],
          active |-> [p \in SeqToSet(ps) |-> S.active[p]],
          primary |-> [p \in SeqToSet(ps) |-> S.primaryBuffer[p]]])

\* drmModeAtomicAlloc, the first call of every atomic commit attempt
AtomicAlloc(ps, mode, ok) == Call("AtomicAlloc", ok, [batch |-> ps, mode |-> mode])

\* the kernel after a real commit it accepted: the request's values, and a
\* page-flip event queued when one was asked for
KernelCommit(S, ps, flags, req) ==
    [S EXCEPT !.kern = [c \in DOMAIN S.kern |->
                          IF \E e \in req : e[1] = c
                          THEN (CHOOSE e \in req : e[1] = c)[2] ELSE S.kern[c]],
              !.pendingFlips = [p \in Pipes |->
                          IF "PAGE_FLIP_EVENT" \in flags /\ p \in SeqToSet(ps)
                          THEN S.pendingFlips[p] + 1 ELSE S.pendingFlips[p]]]

\* commitPipelines with a slip: the real commit is issued whatever the
\* TEST_ONLY ioctl returned
CommitPipelinesAtomicUntested(S, ps, mode, f) ==
    LET Committed(C, flags, req) ==
            IF f.at \in {"test", "commit"} THEN Result(Failed(C, ps), FALSE)
            ELSE Result(Succeeded(KernelCommit(C, ps, flags, req), ps, mode), TRUE)
        Tested(T, flags, req) ==
            IF mode = "Test"
            THEN (IF f.at = "test" THEN Result(Failed(T, ps), FALSE)
                  ELSE Result(Succeeded(T, ps, mode), TRUE))
            ELSE Committed(Logged(T, AtomicCall(T, ps, mode, flags, req,
                                                f.at \notin {"test", "commit"})),
                           flags, req)
        Populated(acc, flags) ==
            IF ~acc.ret THEN Result(Failed(acc.st, ps), FALSE)
            ELSE Tested(Logged(acc.st, AtomicCall(acc.st, ps, mode,
                                                  (flags \ {"PAGE_FLIP_EVENT"}) \cup {"TEST_ONLY"},
                                                  acc.req, f.at # "test")),
                        flags, acc.req)
        Looped(acc) ==
            Populated(acc, IF mode # "CommitWithPageflipEvent"
                           THEN acc.flags \ {"PAGE_FLIP_EVENT"} ELSE acc.flags)
    IN IF f.at = "alloc" THEN Result(Logged(S, AtomicAlloc(ps, mode, FALSE)), FALSE)
       ELSE Looped(PopulateLoop([st |-> Logged(S, AtomicAlloc(ps, mode, TRUE)),
                                 flags |-> {}, req |-> {}, ret |-> TRUE], ps, f))

\* the legacy branch of commitPipelines is ModesetLegacy, defined below
CommitPipelinesAtomic(S, ps, mode, f) ==
    LET Committed(C, flags, req) ==
            IF f.at = "commit" THEN Result(Failed(C, ps), FALSE)
            ELSE Result(Succeeded(KernelCommit(C, ps, flags, req), ps, mode), TRUE)
        Tested(T, flags, req) ==
            IF f.at = "test" THEN Result(Failed(T, ps), FALSE)
            ELSE IF mode = "Test" THEN Result(Succeeded(T, ps, mode), TRUE)
            ELSE Committed(Logged(T, AtomicCall(T, ps, mode, flags, req, f.at # "commit")),
                           flags, req)
        Populated(acc, flags) ==
            IF ~acc.ret THEN Result(Failed(acc.st, ps), FALSE)
            ELSE Tested(Logged(acc.st, AtomicCall(acc.st, ps, mode,
                                                  (flags \ {"PAGE_FLIP_EVENT"}) \cup {"TEST_ONLY"},
                                                  acc.req, f.at # "test")),
                        flags, acc.req)
        Looped(acc) ==
            Populated(acc, IF mode # "CommitWithPageflipEvent"
                           THEN acc.flags \ {"PAGE_FLIP_EVENT"} ELSE acc.flags)
    IN IF f.at = "alloc" THEN Result(Logged(S, AtomicAlloc(ps, mode, FALSE)), FALSE)
       ELSE Looped(PopulateLoop([st |-> Logged(S, AtomicAlloc(ps, mode, TRUE)),
                                 flags |-> {}, req |-> {}, ret |-> TRUE], ps, f))

\* -------------------------------------------------------------- modeset
\* DrmPipeline::currentBuffer
CurrentBuffer(S, p) ==
    IF PrimaryPlanes(p) # {} THEN S.bufCurrent[Plane(p, 1)] ELSE S.bufCurrent[Crtc(p, 1)]
\* DrmConnector::setModeIndex
SetModeIndex(S, c, m) == [S EXCEPT !.pendingModeIndex[c] = m]

\* DrmPipeline::modeset, legacy branch.  With an inactive pipeline and no
\* buffer, checkTestBuffer passes without a buffer and drmModeSetCrtc is
\* called with whatever framebuffer id the empty pointer yields (0 here).
ModesetLegacy(S, p, wantedMode, f) ==
    LET Failure(S2) ==
            Result([SetModeIndex(S2, Conn(p, 1), ModeIndex(S, p))
                       EXCEPT !.primaryBuffer[p] = S2.oldTestBuffer[p]], FALSE)
        Success(S3) ==
            Result(IF S3.bufCurrent[Crtc(p, 1)] # NoBuffer
                   THEN SetNext(S3, Crtc(p, 1), S3.primaryBuffer[p])
                   ELSE SetCurrentBuffer(S3, Crtc(p, 1), S3.primaryBuffer[p]), TRUE)
        SetCrtc(S2) ==
            IF f.at = "setcrtc" /\ f.p = p THEN Failure(S2)
            ELSE Success([S2 EXCEPT !.oldTestBuffer[p] = NoBuffer,
                                    !.legacyNeedsModeset[p] = FALSE])
        Checked(tb) ==
            IF ~tb.ret THEN Failure(tb.st)
            ELSE SetCrtc(Logged(tb.st, Call("SetCrtc", ~(f.at = "setcrtc" /\ f.p = p),
                                            [crtc |-> Crtc(p, 1), fb |-> tb.st.primaryBuffer[p].fb,
                                             conn |-> Conn(p, 1), mode |-> wantedMode])))
    IN Checked(CheckTestBuffer(SetModeIndex(S, Conn(p, 1), wantedMode), p,
                               ~(f.at = "tbuf" /\ f.p = p)))

RECURSIVE CommitPipelinesLegacy(_, _, _)
\* DrmPipeline::commitPipelines, legacy branch: a modeset of mode 0 for every
\* pipeline that still needs one
CommitPipelinesLegacy(S, ps, f) ==
    IF ps = <<>> THEN Result(S, TRUE)
    ELSE IF ~S.legacyNeedsModeset[Head(ps)] THEN CommitPipelinesLegacy(S, Tail(ps), f)
    ELSE LET Then(m) == IF ~m.ret THEN m ELSE CommitPipelinesLegacy(m.st, Tail(ps), f)
         IN Then(ModesetLegacy(S, Head(ps), 0, f))

\* DrmPipeline::commitPipelines
CommitPipelines(S, ps, mode, f) ==
    IF gpu.atomic THEN CommitPipelinesAtomic(S, ps, mode, f)
    ELSE CommitPipelinesLegacy(S, ps, f)

\* m_gpu->pipelines()
GpuPipelines == <<1, 2>>

\* test(pipelines) with a slip: the test buffer is checked in legacy mode too
TestChecksBufferAlways(S, p, ps, f) ==
    LET Checked(tb) ==
            IF ~gpu.atomic THEN Result(tb.st, TRUE)
            ELSE IF ~tb.ret THEN Result(tb.st, FALSE)
            ELSE CommitPipelines(tb.st, ps, "Test", f)
    IN Checked(CheckTestBuffer(S, p, f.at # "tbuf0"))
\* DrmPipeline::test(pipelines)
Test(S, p, ps, f) ==
    LET Checked(tb) ==
            IF ~tb.ret THEN Result(tb.st, FALSE) ELSE CommitPipelines(tb.st, ps, "Test", f)
    IN IF gpu.atomic THEN Checked(CheckTestBuffer(S, p, f.at # "tbuf0"))
       ELSE Result(S, TRUE)

\* DrmPipeline::test()
TestAll(S, p, f) == Test(S, p, GpuPipelines, f)

\* DrmPipeline::atomicCommit
AtomicCommit(S, p, f) == CommitPipelines(S, <<p>>, "CommitWithPageflipEvent", f)

\* DrmPipeline::updateProperties
UpdateProperties(S, p) ==
    LET Dirty(S2) == [S2 EXCEPT !.cursor[p].dirtyBo = TRUE, !.cursor[p].dirtyPos = TRUE]
    IN Dirty(Logged(UpdatePropertiesAll(S, AllObjects(p)),
                    Call("updateProperties", TRUE, [objs |-> AllObjects(p)])))

RECURSIVE SetValues(_, _, _, _)
\* the setValues lambda of the atomic modeset: mode index and mode blob of
\* every tile, and the overscan again for the size of the new mode
SetValues(S, p, wantedMode, i) ==
    IF i > TileCount(p) THEN S
    ELSE LET Overscanned(S2) ==
                 IF ConnHasOverscan(Conn(p, i))
                 THEN ConnSetOverscan(S2, Conn(p, i), ConnOverscan(S2, Conn(p, i)),
                                      CurrentModeSize(S2, Conn(p, i)))
                 ELSE S2
         IN SetValues(Overscanned(SetPendingBlob(SetModeIndex(S, Conn(p, i), wantedMode),
                                                 <<Crtc(p, i), "ModeId">>, TRUE)),
                      p, wantedMode, i + 1)

\* the rotations the plane's rotation property offers
SupportedTransforms == TransformFlags \ {"ReflectY"}
\* DrmPlane::setTransformation
PlaneSetTransformation(S, pl, t) ==
    IF t \subseteq SupportedTransforms
    THEN Result(SetPending(S, <<pl, "Rotation">>, TransformValue(t)), TRUE)
    ELSE Result(S, FALSE)

RECURSIVE StageTransformation(_, _, _, _)
\* the loop of setPendingTransformation over the primary planes
StageTransformation(S, p, t, i) ==
    IF i > TileCount(p) THEN Result(S, TRUE)
    ELSE LET Then(r) == IF ~r.ret THEN r ELSE StageTransformation(r.st, p, t, i + 1)
         IN Then(PlaneSetTransformation(S, Plane(p, i), t))

\* DrmPipeline::setPendingTransformation
SetPendingTransformation(S, p, t) ==
    LET Then(r) == IF ~r.ret THEN Result(RollbackPendingAll(r.st, PrimaryPlanes(p)), FALSE)
                   ELSE r
    IN IF Transformation(S, p) = t THEN Result(S, TRUE)
       ELSE IF ~gpu.atomic THEN Result(S, FALSE)
       ELSE Then(StageTransformation(S, p, t, 1))

\* DrmPipeline::setTransformation
SetTransformation(S, p, t, f) ==
    LET Then(r) == IF ~r.ret THEN r ELSE TestAll(r.st, p, f)
    IN Then(SetPendingTransformation(S, p, t))

\* DrmPipeline::modeset, atomic branch; the second try, with Rotate0, is noted
\* in the log
ModesetAtomic(S, p, wantedMode, f, heal) ==
    LET Soft(spt) ==
            IF spt.ret THEN TestAll(SetValues(spt.st, p, wantedMode, 1), p, Retry(f, heal))
            ELSE Result(spt.st, FALSE)
        Then(first) ==
            IF first.ret \/ Transformation(first.st, p) = {"Rotate0"} THEN first
            ELSE Soft(SetPendingTransformation(
                        Logged(first.st, Call("setPendingTransformation", TRUE,
                                              [from |-> Transformation(first.st, p),
                                               to |-> {"Rotate0"}])),
                        p, {"Rotate0"}))
    IN Then(TestAll(SetValues(S, p, wantedMode, 1), p, f))

\* DrmPipeline::modeset
Modeset(S, p, wantedMode, f, heal) ==
    IF gpu.atomic THEN ModesetAtomic(S, p, wantedMode, f, heal)
    ELSE ModesetLegacy(S, p, wantedMode, f)

\* ------------------------------------------------------------ setOverscan
\* DrmPipeline::setOverscan
SetOverscan(S, p, overscan, f) ==
    IF overscan > 100 \/ Cardinality(Connectors(p)) > 1
       \/ (overscan # 0 /\ ~ConnHasOverscan(Conn(p, 1)))
    THEN Result(S, FALSE)
    ELSE TestAll(ConnSetOverscan(S, Conn(p, 1), overscan, CurrentModeSize(S, Conn(p, 1))),
                 p, f)

\* ------------------------------------------------------------ setSyncMode
\* the values of AbstractWaylandOutput::RgbRange, the indices of the enum names
RgbRanges == {"Automatic", "Full", "Limited"}
\* DrmObject::Property::initEnumMap: the kernel lists (name, value) pairs; a
\* listed name that is one of the enum names maps its index to the value
InitEnumMap(enums) ==
    [r \in {enums[i].name : i \in DOMAIN enums} \cap RgbRanges |->
        (CHOOSE i \in DOMAIN enums : enums[i].name = r /\
            \A j \in DOMAIN enums : enums[j].name = r => j <= i) - 1]
\* DrmObject::Property::hasEnum
HasEnum(r) == r \in DOMAIN caps.rgbEnums
\* DrmObject::Property::setEnum: stages the mapped value, or does nothing
SetEnum(S, cell, r) ==
    IF HasEnum(r) THEN Result(SetPending(S, cell, caps.rgbEnums[r]), TRUE)
    ELSE Result(S, FALSE)
\* DrmPipeline::setRgbRange: the result of setEnum is dropped
SetRgbRange(S, p, r, f) ==
    IF HasRgbRange(Conn(p, 1))
    THEN TestAll(SetEnum(S, <<Conn(p, 1), "Broadcast_RGB">>, r).st, p, f)
    ELSE Result(S, FALSE)

\* ----------------------------------------------------------- setGammaRamp
RECURSIVE GammaLoop(_, _, _, _, _)
\* the loop of setGammaRamp over the CRTCs, stopping at the first failure:
\* with the property, DrmCrtc::setPendingBlob (drmModeCreatePropertyBlob and
\* the blob id staged on Gamma_LUT); without, drmModeCrtcSetGamma.  failAt:
\* the tile whose call fails, 0 for none
GammaLoop(S, p, withProp, failAt, i) ==
    IF i > TileCount(p) THEN Result(S, TRUE)
    ELSE LET Called1(S1) ==
                 IF i = failAt THEN Result(S1, FALSE)
                 ELSE GammaLoop(IF withProp
                                THEN SetPendingBlob(S1, <<Crtc(p, i), "GammaLut">>, TRUE)
                                ELSE S1, p, withProp, failAt, i + 1)
         IN Called1(Logged(S, Call(IF withProp THEN "CreatePropertyBlob" ELSE "CrtcSetGamma",
                                   i # failAt, [crtc |-> Crtc(p, i)])))
\* DrmPipeline::setGammaRamp
SetGammaRamp(S, p, f, failAt) ==
    LET Staged(r) == IF ~r.ret THEN r ELSE TestAll(r.st, p, f)
    IN IF gpu.atomic /\ "GammaLut" \in PropsOf(Crtc(p, 1))
       THEN Staged(GammaLoop(S, p, TRUE, failAt, 1))
       ELSE GammaLoop(S, p, FALSE, failAt, 1)
\* DrmPipeline::vrrCapable
VrrCapable(p) == \A c \in Connectors(p) : ConnVrrCapable(c)

RECURSIVE SyncLoop(_, _, _, _, _)
\* the loop of setSyncMode over the CRTCs: it stops at the first CRTC without
\* the VrrEnabled property and stages the value where it differs
SyncLoop(S, p, vrr, i, needsTest) ==
    IF i > TileCount(p) THEN [st |-> S, success |-> TRUE, needsTest |-> needsTest]
    ELSE IF ~HasVrrProp(Crtc(p, i)) THEN [st |-> S, success |-> FALSE, needsTest |-> needsTest]
    ELSE IF S.props[<<Crtc(p, i), "VrrEnabled">>].pending # vrr
    THEN SyncLoop(SetPending(S, <<Crtc(p, i), "VrrEnabled">>, vrr), p, vrr, i + 1, TRUE)
    ELSE SyncLoop(S, p, vrr, i + 1, needsTest)

\* DrmPipeline::setSyncMode; setOk: drmModeObjectSetProperty succeeds
SetSyncMode(S, p, syncMode, f, setOk) ==
    LET vrr == IF syncMode = "Adaptive" THEN 1 ELSE 0
        Looped(l) ==
            IF ~l.success THEN Result(l.st, FALSE)
            ELSE IF ~l.needsTest THEN Result(l.st, TRUE)
            ELSE TestAll(l.st, p, f)
    IN IF ~VrrCapable(p) THEN Result(S, syncMode = "Fixed")
       ELSE IF gpu.atomic THEN Looped(SyncLoop(S, p, vrr, 1, FALSE))
       ELSE IF ~HasVrrProp(Crtc(p, 1)) THEN Result(S, FALSE)
       ELSE Result(Logged(S, Call("ObjectSetProperty", setOk,
                                  [crtc |-> Crtc(p, 1), prop |-> "VrrEnabled",
                                   value |-> vrr])), setOk)

\* -------------------------------------------------------------- present
\* DrmBuffer::needsModeChange: the pixel format differs
NeedsModeChange(cur, b) == cur.fmt # b.fmt

\* presentLegacy with a slip: the mode is set before every flip
PresentLegacySetsCrtcAlways(S, p, f) ==
    LET Flipped(S2) ==
            IF f.at = "pageflip" THEN Result(S2, FALSE)
            ELSE Result([S2 EXCEPT !.pendingFlips[p] = S2.pendingFlips[p] + 1], TRUE)
        Flip(S1) ==
            Flipped(Logged(S1, Call("PageFlip", f.at # "pageflip",
                                    [crtc |-> Crtc(p, 1), fb |-> S1.primaryBuffer[p].fb,
                                     flags |-> {"PAGE_FLIP_EVENT"}])))
        Then(m) ==
            IF ~m.ret THEN m
            ELSE Flip(SetNext([m.st EXCEPT !.lastFlags[p] = {"PAGE_FLIP_EVENT"}], Crtc(p, 1),
                              m.st.primaryBuffer[p]))
    IN Then(ModesetLegacy(S, p, ModeIndex(S, p), f))
\* DrmPipeline::presentLegacy
PresentLegacy(S, p, f) ==
    LET Flipped(S2) ==
            IF f.at = "pageflip" THEN Result(S2, FALSE)
            ELSE Result([S2 EXCEPT !.pendingFlips[p] = S2.pendingFlips[p] + 1], TRUE)
        Flip(S1) ==
            Flipped(Logged(S1, Call("PageFlip", f.at # "pageflip",
                                    [crtc |-> Crtc(p, 1), fb |-> S1.primaryBuffer[p].fb,
                                     flags |-> {"PAGE_FLIP_EVENT"}])))
        Then(m) ==
            IF ~m.ret THEN m
            ELSE Flip(SetNext([m.st EXCEPT !.lastFlags[p] = {"PAGE_FLIP_EVENT"}], Crtc(p, 1),
                              m.st.primaryBuffer[p]))
    IN Then(IF CurrentBuffer(S, p) = NoBuffer
               \/ NeedsModeChange(CurrentBuffer(S, p), S.primaryBuffer[p])
            THEN ModesetLegacy(S, p, ModeIndex(S, p), f) ELSE Result(S, TRUE))

\* present with two slips, one at a time: the retry without the property
\* refresh, and the EGLStream shortcut taken with staged changes
PresentNoRefresh(S, p, buffer, f, heal) ==
    LET Again(first) ==
            IF first.ret THEN first ELSE AtomicCommit(first.st, p, Retry(f, heal))
        Stored(S1) ==
            IF UsesEglStreams /\ ~(\E o \in AllObjects(p) : NeedsCommit(S1, o))
            THEN Result(S1, TRUE)
            ELSE IF gpu.atomic THEN Again(AtomicCommit(S1, p, f))
            ELSE PresentLegacy(S1, p, f)
    IN Stored([S EXCEPT !.primaryBuffer[p] = buffer])
PresentAlwaysBypass(S, p, buffer, f, heal) ==
    LET Again(first) ==
            IF first.ret THEN first
            ELSE AtomicCommit(UpdateProperties(first.st, p), p, Retry(f, heal))
        Stored(S1) ==
            IF UsesEglStreams THEN Result(S1, TRUE)
            ELSE IF gpu.atomic THEN Again(AtomicCommit(S1, p, f))
            ELSE PresentLegacy(S1, p, f)
    IN Stored([S EXCEPT !.primaryBuffer[p] = buffer])

\* present with a slip: the atomic commit is issued again after it succeeded
PresentCommitsTwice(S, p, buffer, f, heal) ==
    LET Again(first) ==
            IF first.ret THEN AtomicCommit(first.st, p, NoFail)
            ELSE AtomicCommit(UpdateProperties(first.st, p), p, Retry(f, heal))
        Stored(S1) ==
            IF UsesEglStreams /\ ~(\E o \in AllObjects(p) : NeedsCommit(S1, o))
            THEN Result(S1, TRUE)
            ELSE IF gpu.atomic THEN Again(AtomicCommit(S1, p, f))
            ELSE PresentLegacy(S1, p, f)
    IN Stored([S EXCEPT !.primaryBuffer[p] = buffer])
\* DrmPipeline::present
Present(S, p, buffer, f, heal) ==
    LET Again(first) ==
            IF first.ret THEN first
            ELSE AtomicCommit(UpdateProperties(first.st, p), p, Retry(f, heal))
        Stored(S1) ==
            IF UsesEglStreams /\ ~(\E o \in AllObjects(p) : NeedsCommit(S1, o))
            THEN Result(S1, TRUE)
            ELSE IF gpu.atomic THEN Again(AtomicCommit(S1, p, f))
            ELSE PresentLegacy(S1, p, f)
    IN Stored([S EXCEPT !.primaryBuffer[p] = buffer])

\* --------------------------------------------------------------- cursor
RECURSIVE SetCursorLoop(_, _, _, _, _)
\* the loop of setCursor over the CRTCs; co: what the driver answers
\* ("ok", "enotsup": only the call without hotspot works, "fail")
SetCursorLoop(S, p, buffer, co, i) ==
    IF i > TileCount(p) THEN Result(S, TRUE)
    ELSE LET Fallback(c2) ==
                 IF co = "fail" THEN Result(c2, FALSE)
                 ELSE IF co = "enotsup"
                 THEN SetCursorLoop(Logged(c2, Call("SetCursor", TRUE,
                                                    [crtc |-> Crtc(p, i), handle |-> buffer])),
                                    p, buffer, co, i + 1)
                 ELSE SetCursorLoop(c2, p, buffer, co, i + 1)
         IN Fallback(Logged(S, Call("SetCursor2", co = "ok",
                                    [crtc |-> Crtc(p, i), handle |-> buffer])))

\* setCursor with a slip: the cursor is stored before the kernel is asked
SetCursorStoresFirst(S, p, buffer, hotspot, co) ==
    IF ~S.cursor[p].dirtyBo /\ S.cursor[p].buffer = buffer /\ S.cursor[p].hotspot = hotspot
    THEN Result(S, TRUE)
    ELSE SetCursorLoop([S EXCEPT !.cursor[p].buffer = buffer,
                                 !.cursor[p].dirtyBo = FALSE,
                                 !.cursor[p].hotspot = hotspot], p, buffer, co, 1)
\* DrmPipeline::setCursor
SetCursor(S, p, buffer, hotspot, co) ==
    LET Then(r) ==
            IF ~r.ret THEN r
            ELSE Result([r.st EXCEPT !.cursor[p].buffer = buffer,
                                     !.cursor[p].dirtyBo = FALSE,
                                     !.cursor[p].hotspot = hotspot], TRUE)
    IN IF ~S.cursor[p].dirtyBo /\ S.cursor[p].buffer = buffer /\ S.cursor[p].hotspot = hotspot
       THEN Result(S, TRUE)
       ELSE Then(SetCursorLoop(S, p, buffer, co, 1))

RECURSIVE MoveCursorLoop(_, _, _, _, _)
\* the loop of moveCursor over the CRTCs; the position is stored where the
\* kernel refuses the move
MoveCursorLoop(S, p, pos, ok, i) ==
    IF i > TileCount(p) THEN Result([S EXCEPT !.cursor[p].dirtyPos = FALSE], TRUE)
    ELSE LET Moved(S2) ==
                 IF ~ok THEN Result([S2 EXCEPT !.cursor[p].pos = pos], FALSE)
                 ELSE MoveCursorLoop(S2, p, pos, ok, i + 1)
         IN Moved(Logged(S, Call("MoveCursor", ok, [crtc |-> Crtc(p, i), pos |-> pos])))

\* DrmPipeline::moveCursor
MoveCursor(S, p, pos, ok) ==
    IF ~S.cursor[p].dirtyPos /\ S.cursor[p].pos = pos THEN Result(S, TRUE)
    ELSE MoveCursorLoop(S, p, pos, ok, 1)

\* ------------------------------------------------------------- setActive
RECURSIVE ClearCursor(_, _, _, _)
\* the cursor is disabled before the primary plane
ClearCursor(S, p, ok, i) ==
    IF i > TileCount(p) THEN S
    ELSE ClearCursor(Logged(S, Call("SetCursor", ok, [crtc |-> Crtc(p, i), handle |-> 0])),
                     p, ok, i + 1)

RECURSIVE StageActive(_, _, _, _)
\* the values setActive stages on every tile
StageActive(S, p, a, i) ==
    IF i > TileCount(p) THEN S
    ELSE LET crtcId == IF a THEN ObjId(Crtc(p, i)) ELSE 0
             S1 == SetPending(S, <<Conn(p, i), "CrtcId">>, crtcId)
             S2 == SetPending(S1, <<Crtc(p, i), "Active">>, IF a THEN 1 ELSE 0)
             S3 == SetPendingBlob(S2, <<Crtc(p, i), "ModeId">>, a)
             S4 == SetPending(S3, <<Plane(p, i), "CrtcId">>, crtcId)
         IN StageActive(S4, p, a, i + 1)

\* setActive with a slip: the cursor is cleared after the plane is disabled
SetActiveClearsLate(S, p, a, f, heal, co, dpmsOk) ==
    LET Cursor(S2, success) ==
            IF S2.active[p]
            THEN Result(SetCursor(S2, p, S2.cursor[p].buffer, S2.cursor[p].hotspot, co).st,
                        success)
            ELSE Result(S2, success)
        Late(r) ==
            IF S.active[p] /\ ~a THEN Result(ClearCursor(r.st, p, co # "fail", 1), r.ret) ELSE r
        Undone(r) ==
            Cursor(IF r.ret THEN r.st ELSE [r.st EXCEPT !.active[p] = S.active[p]], r.ret)
        Done(r) == Undone(Late(r))
        Again(first) ==
            IF first.ret THEN first
            ELSE TestAll(UpdateProperties(first.st, p), p, Retry(f, heal))
        Staged(S2) ==
            IF a THEN Again(TestAll(S2, p, f)) ELSE AtomicCommit(S2, p, f)
        Switched(S1) ==
            IF gpu.atomic THEN Done(Staged(StageActive(S1, p, a, 1)))
            ELSE Done(Result(Logged(S1, Call("ConnectorSetProperty", dpmsOk,
                                             [conn |-> Conn(p, 1), prop |-> "Dpms",
                                              value |-> IF a THEN "DPMS_ON" ELSE "DPMS_OFF"])),
                             dpmsOk))
        Cleared(S0) == Switched([S0 EXCEPT !.active[p] = a])
    IN Cleared(S)
\* setActive with a slip: enabling commits at once, as disabling does
SetActiveCommitsAlways(S, p, a, f, heal, co, dpmsOk) ==
    LET Cursor(S2, success) ==
            IF S2.active[p]
            THEN Result(SetCursor(S2, p, S2.cursor[p].buffer, S2.cursor[p].hotspot, co).st,
                        success)
            ELSE Result(S2, success)
        Done(r) ==
            Cursor(IF r.ret THEN r.st ELSE [r.st EXCEPT !.active[p] = S.active[p]], r.ret)
        Staged(S2) ==
            AtomicCommit(S2, p, f)
        Switched(S1) ==
            IF gpu.atomic THEN Done(Staged(StageActive(S1, p, a, 1)))
            ELSE Done(Result(Logged(S1, Call("ConnectorSetProperty", dpmsOk,
                                             [conn |-> Conn(p, 1), prop |-> "Dpms",
                                              value |-> IF a THEN "DPMS_ON" ELSE "DPMS_OFF"])),
                             dpmsOk))
        Cleared(S0) == Switched([S0 EXCEPT !.active[p] = a])
    IN Cleared(IF S.active[p] /\ ~a THEN ClearCursor(S, p, co # "fail", 1) ELSE S)
\* DrmPipeline::setActive; dpmsOk: drmModeConnectorSetProperty succeeds
SetActive(S, p, a, f, heal, co, dpmsOk) ==
    LET Cursor(S2, success) ==
            IF S2.active[p]
            THEN Result(SetCursor(S2, p, S2.cursor[p].buffer, S2.cursor[p].hotspot, co).st,
                        success)
            ELSE Result(S2, success)
        Done(r) ==
            Cursor(IF r.ret THEN r.st ELSE [r.st EXCEPT !.active[p] = S.active[p]], r.ret)
        Again(first) ==
            IF first.ret THEN first
            ELSE TestAll(UpdateProperties(first.st, p), p, Retry(f, heal))
        Staged(S2) ==
            IF a THEN Again(TestAll(S2, p, f)) ELSE AtomicCommit(S2, p, f)
        Switched(S1) ==
            IF gpu.atomic THEN Done(Staged(StageActive(S1, p, a, 1)))
            ELSE Done(Result(Logged(S1, Call("ConnectorSetProperty", dpmsOk,
                                             [conn |-> Conn(p, 1), prop |-> "Dpms",
                                              value |-> IF a THEN "DPMS_ON" ELSE "DPMS_OFF"])),
                             dpmsOk))
        Cleared(S0) == Switched([S0 EXCEPT !.active[p] = a])
    IN Cleared(IF S.active[p] /\ ~a THEN ClearCursor(S, p, co # "fail", 1) ELSE S)

\* ----------------------------------------------------------------- setup
RECURSIVE StageSetup(_, _, _)
\* the values setup stages on every tile
StageSetup(S, p, i) ==
    IF i > TileCount(p) THEN S
    ELSE LET Set(St) ==
                 PlaneSet(St, Plane(p, i), <<0, 0>>, SourceSize(St, p), <<0, 0>>,
                          CurrentModeSize(St, Conn(p, i)))
             S1 == SetPending(S, <<Conn(p, i), "CrtcId">>, ObjId(Crtc(p, i)))
             S2 == SetPending(S1, <<Crtc(p, i), "Active">>, 1)
             S3 == SetPendingBlob(S2, <<Crtc(p, i), "ModeId">>, TRUE)
             S4 == SetPending(S3, <<Plane(p, i), "CrtcId">>, ObjId(Crtc(p, i)))
         IN StageSetup(PlaneSetTransformation(Set(S4), Plane(p, i), {"Rotate0"}).st, p, i + 1)

\* DrmPipeline::setup
Setup(S, p, tbOk) ==
    IF ~gpu.atomic THEN S ELSE CheckTestBuffer(StageSetup(S, p, 1), p, tbOk).st

\* ------------------------------------------------------------ pageFlipped
\* pageFlipped with a slip: only the CRTCs flip
PageFlippedCrtcsOnly(S, p) == FlipBuffers(S, {o \in AllObjects(p) : o[1] = "crtc"})
\* DrmPipeline::pageFlipped: every CRTC and every plane flips, connectors do not
PageFlipped(S, p) ==
    FlipBuffers(S, {o \in AllObjects(p) : o[1] = "crtc" \/ o[1] = "plane"})

\* ------------------------------------------------------------------- Init
\* the GPUs: atomic or legacy modesetting; GBM with an EGL backend, or
\* EGLStreams with or without an EGL backend, on the primary GPU or not; a
\* tiled display needs atomic modesetting without EGLStreams (the assertion of
\* addOutput)
GpuConfigs ==
    {g \in [atomic : BOOLEAN, useEglStreams : BOOLEAN, eglBackend : BOOLEAN,
            primaryGpu : BOOLEAN, tiled : BOOLEAN] :
        /\ g.tiled => (g.atomic /\ ~g.useEglStreams)
        /\ ~g.useEglStreams => (g.eglBackend /\ g.primaryGpu)
        /\ g.eglBackend \/ g.primaryGpu
        /\ ~g.atomic => (g.eglBackend /\ g.primaryGpu)}

\* what the kernel holds after another DRM master had the device, and when
\* the compositor starts with every output lit
KernelBlank(c) == IF c[2] = "Rotation" THEN 1 ELSE 0
KernelLit(c) ==
    CASE c[2] = "CrtcId" -> ObjId(<<"crtc", c[1][2], c[1][3]>>)
      [] c[2] = "Active" -> 1
      [] c[2] = "ModeId" -> 1
      [] c[2] = "Rotation" -> 1
      [] OTHER -> 0

NoOp == [op |-> "none", p |-> 0, batch |-> <<>>, mode |-> "none", arg |-> 0, ret |-> TRUE]

\* connectors without the optional properties (internal panels)
NoCaps == [overscan |-> {}, vrrCapable |-> {}, vrrProp |-> {}, rgbRange |-> {},
           rgbEnums |-> <<>>, edid |-> {}, gammaLut |-> {}]

\* the state after construction, for one choice of optional properties
Start(capChoices) ==
    /\ gpu \in GpuConfigs
    /\ caps \in capChoices
    /\ active = [p \in Pipes |-> TRUE]
    /\ primaryBuffer = [p \in Pipes |-> NoBuffer]
    /\ oldTestBuffer = [p \in Pipes |-> NoBuffer]
    /\ legacyNeedsModeset = [p \in Pipes |-> TRUE]
    /\ lastFlags = [p \in Pipes |-> {}]
    /\ cursor = [p \in Pipes |-> [pos |-> <<0, 0>>, hotspot |-> <<0, 0>>, buffer |-> 0,
                                  dirtyBo |-> TRUE, dirtyPos |-> TRUE]]
    /\ kern = [c \in AllCells |-> KernelLit(c)]
    /\ props = [c \in AllCells |-> [pending |-> kern[c], next |-> kern[c], current |-> kern[c]]]
    /\ modeIndex = [c \in UNION {Connectors(p) : p \in Pipes} |-> 0]
    /\ pendingModeIndex = [c \in UNION {Connectors(p) : p \in Pipes} |-> 0]
    /\ bufCurrent = [o \in BufferSlots |-> NoBuffer]
    /\ bufNext = [o \in BufferSlots |-> NoBuffer]
    /\ pendingFlips = [p \in Pipes |-> 0]
    /\ log = <<>>
    /\ last = NoOp
    /\ surface = [alive |-> TRUE, locked |-> <<>>, currentBuffer |-> 0,
                  currentDrmBuffer |-> 0, bufs |-> <<>>, boLocked |-> {}]
    /\ pc = "idle"
    /\ ops = 0

Init == Start({NoCaps})

\* ---------------------------------------------------------------- actions
\* an operation is called from the event loop and returns to it
Called(op, p, batch, mode, arg, res) ==
    \E r \in {res} :
    /\ Store(r.st)
    /\ last' = [op |-> op, p |-> p, batch |-> batch, mode |-> mode, arg |-> arg, ret |-> r.ret]
    /\ pc' = "returned"
    /\ ops' = ops + 1
    /\ UNCHANGED <<gpu, caps, surface>>

CanCall == pc = "idle" /\ ops < MaxOps

\* the failure points one commit of pipeline p alone can hit
CommitFailsFor(p) ==
    IF gpu.atomic THEN {f \in CommitFails : f.p \in {0, p}}
    ELSE {f \in LegacyFails : f.p \in {0, p}}
\* the failure points test() of pipeline p over all pipelines can hit: its own
\* buffer is checked first ("tbuf0"), never again in the loop
TestFailsFor(p) ==
    IF gpu.atomic THEN {f \in TestFails : f.at # "commit" /\ ~(f.at = "tbuf" /\ f.p = p)}
    ELSE {NoFail}
\* a second attempt happens only after a failed first one
Heals(f) == IF gpu.atomic /\ f # NoFail THEN BOOLEAN ELSE {TRUE}
CursorOutcomes == {"ok", "enotsup", "fail"}
Batches == {<<1>>, <<1, 2>>}
CommitModes == {"Test", "Commit", "CommitWithPageflipEvent"}
TransformChoices == {{"Rotate0"}, {"Rotate90"}, {"Rotate180"}, {"Rotate270", "ReflectX"},
                     {"Rotate0", "ReflectY"}}
ClientBuffer(S, p, fb) == [fb |-> fb, size |-> SourceSize(S, p), fmt |-> FormatOf(fb)]

DoSetup(p) ==
    /\ CanCall
    /\ \E tbOk \in (IF gpu.atomic THEN BOOLEAN ELSE {TRUE}) :
         Called("setup", p, <<p>>, "none", 0, Result(Setup(Cur, p, tbOk), TRUE))

DoPresent(p) ==
    /\ CanCall
    /\ \E fb \in ClientFbs, f \in CommitFailsFor(p) : \E heal \in Heals(f) :
         Called("present", p, <<p>>, "CommitWithPageflipEvent", ClientBuffer(Cur, p, fb),
                Present(Cur, p, ClientBuffer(Cur, p, fb), f, heal))

DoCommitPipelines(ps, mode) ==
    /\ CanCall
    /\ \E f \in (IF gpu.atomic THEN {x \in CommitFails : x.p \in {0} \cup SeqToSet(ps)}
                 ELSE {x \in LegacyFails : x.p \in SeqToSet(ps)} \cup {NoFail}) :
         Called("commitPipelines", ps[1], ps, mode, 0, CommitPipelines(Cur, ps, mode, f))

DoTest(p, ps) ==
    /\ CanCall
    /\ \E f \in TestFailsFor(p) :
         Called("test", p, ps, "Test", 0, Test(Cur, p, ps, f))

DoSetActive(p, a) ==
    /\ CanCall
    /\ \E f \in (IF ~gpu.atomic THEN {NoFail} ELSE IF a THEN TestFailsFor(p) ELSE CommitFailsFor(p)),
          co \in CursorOutcomes, dpmsOk \in (IF gpu.atomic THEN {TRUE} ELSE BOOLEAN) :
         \E heal \in (IF a THEN Heals(f) ELSE {TRUE}) :
            Called("setActive", p, <<p>>, "none", a, SetActive(Cur, p, a, f, heal, co, dpmsOk))

DoModeset(p, m) ==
    /\ CanCall
    /\ \E f \in (IF gpu.atomic THEN TestFailsFor(p)
                 ELSE {x \in LegacyFails : x.p \in {0, p} /\ x.at # "pageflip"}) :
         \E heal \in Heals(f) :
            Called("modeset", p, <<p>>, "none", m, Modeset(Cur, p, m, f, heal))

DoSetTransformation(p, t) ==
    /\ CanCall
    /\ \E f \in TestFailsFor(p) :
         Called("setTransformation", p, <<p>>, "none", t, SetTransformation(Cur, p, t, f))

\* the DRM event reader delivers a queued page-flip event
DoPageFlipped(p) ==
    /\ CanCall
    /\ pendingFlips[p] > 0
    /\ Called("pageFlipped", p, <<p>>, "none", 0,
              Result([PageFlipped(Cur, p) EXCEPT !.pendingFlips[p] = pendingFlips[p] - 1], TRUE))

\* another DRM master had the device (VT switch): the kernel state is reset
VTSwitch ==
    /\ CanCall
    /\ kern # [c \in AllCells |-> KernelBlank(c)]
    /\ Called("vtSwitch", 0, <<>>, "none", 0,
              Result([Cur EXCEPT !.kern = [c \in AllCells |-> KernelBlank(c)]], TRUE))

\* the display thread takes the next event: the finished call's trace is dropped
EventLoop ==
    /\ pc = "returned"
    /\ pc' = "idle"
    /\ log' = <<>>
    /\ last' = NoOp
    /\ UNCHANGED <<gpu, caps, active, primaryBuffer, oldTestBuffer, legacyNeedsModeset, lastFlags,
                   cursor, props, modeIndex, pendingModeIndex, bufCurrent, bufNext, kern,
                   pendingFlips, surface, ops>>

\* the overscan argument: none, a border, out of range
OverscanChoices == {0, 5, 101}

\* the call record keeps, with the argument, what the kernel answers
DoSetOverscan(p, overscan) ==
    /\ CanCall
    /\ \E f \in TestFailsFor(p) :
         Called("setOverscan", p, <<p>>, "none", [overscan |-> overscan, kernel |-> f],
                SetOverscan(Cur, p, overscan, f))

Next ==
    \/ \E p \in Pipes : DoSetup(p)
    \/ \E p \in Pipes : DoPresent(p)
    \/ \E ps \in Batches, mode \in CommitModes : DoCommitPipelines(ps, mode)
    \/ \E p \in Pipes, ps \in Batches : DoTest(p, ps)
    \/ \E p \in Pipes, a \in BOOLEAN : DoSetActive(p, a)
    \/ \E p \in Pipes, m \in ModeIndices : DoModeset(p, m)
    \/ \E p \in Pipes, t \in TransformChoices : DoSetTransformation(p, t)
    \/ \E p \in Pipes : DoPageFlipped(p)
    \/ VTSwitch
    \/ EventLoop

Spec == Init /\ [][Next]_vars

\* ------------------------------------------------------- cursor, by itself
\* the cursor operations may follow each other without a return to the
\* event loop
CanCallCursor == ops < MaxCursorOps
CursorBuffers == 0..1
Hotspots == {<<0, 0>>, <<1, 1>>}
Positions == {<<0, 0>>, <<3, 4>>}

DoSetCursor(p, buffer, hotspot) ==
    /\ CanCallCursor
    /\ \E co \in CursorOutcomes :
         Called("setCursor", p, <<p>>, "none",
                [buffer |-> buffer, hotspot |-> hotspot, kernel |-> co],
                SetCursor(Cur, p, buffer, hotspot, co))

DoMoveCursor(p, pos) ==
    /\ CanCallCursor
    /\ \E ok \in BOOLEAN :
         Called("moveCursor", p, <<p>>, "none", [pos |-> pos, kernel |-> ok],
                MoveCursor(Cur, p, pos, ok))

DoUpdateProperties(p) ==
    /\ CanCallCursor
    /\ Called("updateProperties", p, <<p>>, "none", 0, Result(UpdateProperties(Cur, p), TRUE))

NextCursor ==
    \/ \E p \in Pipes, buffer \in CursorBuffers, hotspot \in Hotspots :
          DoSetCursor(p, buffer, hotspot)
    \/ \E p \in Pipes, pos \in Positions : DoMoveCursor(p, pos)
    \/ \E p \in Pipes : DoUpdateProperties(p)
    \/ EventLoop
SpecCursor == Init /\ [][NextCursor]_vars

\* ---------------------------------------------------- sync mode, by itself
\* any connectors VRR-capable, any CRTCs with the VrrEnabled property
SyncCaps ==
    [overscan : {{}},
     vrrCapable : SUBSET UNION {Connectors(p) : p \in Pipes},
     vrrProp : SUBSET UNION {Crtcs(p) : p \in Pipes},
     rgbRange : {{}}, rgbEnums : {<<>>}, edid : {{}}, gammaLut : {{}}]
InitSync == Start(SyncCaps)
SyncModes == {"Fixed", "Adaptive"}

DoSetSyncMode(p, syncMode) ==
    /\ CanCall
    /\ \E f \in TestFailsFor(p), setOk \in (IF gpu.atomic THEN {TRUE} ELSE BOOLEAN) :
         Called("setSyncMode", p, <<p>>, "none", [syncMode |-> syncMode, kernel |-> f],
                SetSyncMode(Cur, p, syncMode, f, setOk))

NextSync ==
    \/ \E p \in Pipes, syncMode \in SyncModes : DoSetSyncMode(p, syncMode)
    \/ EventLoop
SpecSync == InitSync /\ [][NextSync]_vars

\* ----------------------------------------------------- overscan, by itself
\* every connector of the GPU has the underscan properties, or none has
OverscanCaps == {NoCaps, [NoCaps EXCEPT !.overscan = UNION {Connectors(p) : p \in Pipes}]}
InitOverscan == Start(OverscanCaps)
NextOverscan ==
    \/ \E p \in Pipes, overscan \in OverscanChoices : DoSetOverscan(p, overscan)
    \/ \E p \in Pipes, m \in ModeIndices : DoModeset(p, m)
    \/ VTSwitch
    \/ EventLoop
SpecOverscan == InitOverscan /\ [][NextOverscan]_vars

\* ---------------------------------------------------- RGB range, by itself
\* what the kernel lists for Broadcast_RGB: every range, or (an older driver)
\* no automatic range, with the values numbered from zero in either case
KernelRgbEnums ==
    {<<[name |-> "Automatic", value |-> 0], [name |-> "Full", value |-> 1],
       [name |-> "Limited", value |-> 2]>>,
     <<[name |-> "Full", value |-> 0], [name |-> "Limited", value |-> 1]>>}
\* every connector of the GPU has the Broadcast_RGB property, or none has
RgbCaps ==
    {NoCaps} \cup
    {[NoCaps EXCEPT !.rgbRange = UNION {Connectors(p) : p \in Pipes},
                    !.rgbEnums = InitEnumMap(en)] : en \in KernelRgbEnums}

DoSetRgbRange(p, r) ==
    /\ CanCall
    /\ \E f \in TestFailsFor(p) :
         Called("setRgbRange", p, <<p>>, "none", [rgbRange |-> r, kernel |-> f],
                SetRgbRange(Cur, p, r, f))

NextRgb ==
    \/ \E p \in Pipes, r \in RgbRanges : DoSetRgbRange(p, r)
    \/ EventLoop
SpecRgb == Start(RgbCaps) /\ [][NextRgb]_vars

\* ------------------------------------------------- legacy mode, by itself
\* number of calls and flip events in one behaviour of the legacy operations
MaxLegacyOps == 3
CanCallLegacy == pc = "idle" /\ ops < MaxLegacyOps
\* the pixel formats of client buffers
Formats == {"XR24", "AR24"}
\* the size of a buffer rendered for a mode the output no longer has
StaleSize == <<1, 1>>
\* present of a client buffer of either format, of the source size or not;
\* the flip event; modeset
NextLegacy ==
    \/ \E p \in Pipes, fb \in ClientFbs, fmt \in Formats :
       \E size \in {SourceSize(Cur, p), StaleSize}, f \in CommitFailsFor(p) :
          /\ CanCallLegacy
          /\ Called("present", p, <<p>>, "CommitWithPageflipEvent",
                    [fb |-> fb, size |-> size, fmt |-> fmt],
                    Present(Cur, p, [fb |-> fb, size |-> size, fmt |-> fmt], f, TRUE))
    \/ \E p \in Pipes :
          /\ CanCallLegacy
          /\ pendingFlips[p] > 0
          /\ Called("pageFlipped", p, <<p>>, "none", 0,
                    Result([PageFlipped(Cur, p) EXCEPT !.pendingFlips[p] = pendingFlips[p] - 1],
                           TRUE))
    \/ \E p \in Pipes, m \in ModeIndices :
       \E f \in {x \in LegacyFails : x.p \in {0, p} /\ x.at # "pageflip"} :
          /\ CanCallLegacy
          /\ Called("modeset", p, <<p>>, "none", m, Modeset(Cur, p, m, f, TRUE))
    \/ EventLoop
\* the GPUs without atomic modesetting
InitLegacy == Start({NoCaps}) /\ ~gpu.atomic
SpecLegacy == InitLegacy /\ [][NextLegacy]_vars

\* --------------------------------------------------- isComplete, by itself
\* the tile grids have up to MaxGrid columns and rows
MaxGrid == 2
\* tile_width and tile_height as the connector reports them: the defaults, or
\* the tile's size in pixels
TileSizes == {<<1, 1>>, <<4, 3>>}
\* DrmConnector::TilingInfo of one connector
TilingInfo(group, nx, ny, loc, size) ==
    [group_id |-> group, num_tiles_x |-> nx, num_tiles_y |-> ny, loc_x |-> loc[1],
     loc_y |-> loc[2], tile_width |-> size[1], tile_height |-> size[2]]
\* the m_connectors a pipeline can hold: one untiled connector, or the
\* connectors of some tiles of one tile group, in the order of their tiles
ConnectorLists ==
    LET Rank(l, locs) ==
            1 + Cardinality({m \in locs : m[1] < l[1] \/ (m[1] = l[1] /\ m[2] < l[2])})
        Listed(locs, nx, ny, size) ==
            [i \in 1..Cardinality(locs) |->
                TilingInfo(1, nx, ny, CHOOSE l \in locs : Rank(l, locs) = i, size)]
    IN {<<TilingInfo(-1, 1, 1, <<0, 0>>, <<1, 1>>)>>} \cup
       UNION {{Listed(locs, nx, ny, size) :
                 locs \in (SUBSET ((0..(nx - 1)) \X (0..(ny - 1)))) \ {{}}} :
              nx \in 1..MaxGrid, ny \in 1..MaxGrid, size \in TileSizes}
\* DrmConnector::isTiled
IsTiled(info) == info.group_id # -1
\* DrmPipeline::isComplete over the connectors conns
IsComplete(conns) ==
    IF IsTiled(conns[1])
    THEN IF gpu.useEglStreams THEN TRUE
         ELSE \A x \in 0..(conns[1].num_tiles_x - 1), y \in 0..(conns[1].num_tiles_y - 1) :
                \E i \in DOMAIN conns :
                   /\ x >= conns[i].loc_x /\ x <= conns[i].loc_x + conns[i].tile_width
                   /\ y >= conns[i].loc_y /\ y <= conns[i].loc_y + conns[i].tile_height
    ELSE TRUE

DoIsComplete(conns) ==
    /\ CanCall
    /\ Len(conns) > 1 => (gpu.atomic /\ ~gpu.useEglStreams)
    /\ Called("isComplete", 0, <<>>, "none", conns, Result(Cur, IsComplete(conns)))

NextComplete ==
    \/ \E conns \in ConnectorLists : DoIsComplete(conns)
    \/ EventLoop
SpecComplete == Init /\ [][NextComplete]_vars

\* ----------------------------------------------- property cells, by themselves
\* the values written to a cell
CellValues == 0..1
\* a write through DrmObject::setPending, a hotplug that lets the kernel
\* replace the EDID blob, and the refresh of the properties
NextCells ==
    \/ \E p \in Pipes, prop \in {"Edid", "Dpms", "VrrEnabled"}, v \in CellValues :
          /\ CanCall
          /\ Called("setPending", p, <<p>>, "none", [prop |-> prop, value |-> v],
                    ObjectSetPending(Cur, Conn(p, 1), prop, v))
    \/ \E p \in Pipes :
          /\ CanCall
          /\ <<Conn(p, 1), "Edid">> \in AllCells
          /\ Called("hotplug", p, <<p>>, "none", 0,
                    Result([Cur EXCEPT !.kern[<<Conn(p, 1), "Edid">>] = 1 - @], TRUE))
    \/ \E p \in Pipes : DoUpdateProperties(p)
    \/ EventLoop
SpecCells ==
    Start({NoCaps, [NoCaps EXCEPT !.edid = UNION {Connectors(p) : p \in Pipes}]})
    /\ [][NextCells]_vars

\* ------------------------------------------- property discovery, by itself
\* the property definitions of a connector taken here, with their requirement
Requirements == [CrtcId |-> "Required", Dpms |-> "RequiredForLegacy", Edid |-> "Optional"]
\* DrmObject::updateProperties of object o.  The kernel exposes the cells in
\* the domain of kern; listOk: drmModeObjectGetProperties succeeds;
\* unreadable: the properties for which drmModeGetProperty fails, which the
\* loop skips.  A definition that is found has its cell refreshed or created,
\* one that is not has its cell deleted.
ObjectUpdateProperties(S, o, listOk, unreadable) ==
    LET Found == {n \in DOMAIN Requirements : <<o, n>> \in DOMAIN S.kern /\ n \notin unreadable}
        Cell(c) ==
            IF c[1] # o THEN S.props[c]
            ELSE IF c \in DOMAIN S.props THEN [S.props[c] EXCEPT !.current = S.kern[c]]
            ELSE [pending |-> S.kern[c], next |-> S.kern[c], current |-> S.kern[c]]
        Required(n) ==
            IF gpu.atomic THEN Requirements[n] = "Required"
            ELSE Requirements[n] = "RequiredForLegacy"
    IN IF ~listOk THEN Result(S, FALSE)
       ELSE Result([S EXCEPT !.props = [c \in {x \in DOMAIN S.props : x[1] # o}
                                                \cup {<<o, n>> : n \in Found} |-> Cell(c)]],
                   \A n \in DOMAIN Requirements : Required(n) => n \in Found)
\* the kernel adds, removes or changes a property of a connector; the
\* properties of the connector are read again
NextDiscovery ==
    \/ \E p \in Pipes, n \in DOMAIN Requirements, v \in CellValues :
          /\ CanCall
          /\ <<Conn(p, 1), n>> \in DOMAIN kern => kern[<<Conn(p, 1), n>>] # v
          /\ Called("kernelSetsProperty", p, <<p>>, "none", [prop |-> n, value |-> v],
                    Result([Cur EXCEPT !.kern = [c \in DOMAIN kern \cup {<<Conn(p, 1), n>>} |->
                                                    IF c = <<Conn(p, 1), n>> THEN v ELSE kern[c]]],
                           TRUE))
    \/ \E p \in Pipes, n \in DOMAIN Requirements :
          /\ CanCall
          /\ <<Conn(p, 1), n>> \in DOMAIN kern
          /\ Called("kernelDropsProperty", p, <<p>>, "none", [prop |-> n],
                    Result([Cur EXCEPT !.kern = [c \in DOMAIN kern \ {<<Conn(p, 1), n>>} |->
                                                    kern[c]]], TRUE))
    \/ \E p \in Pipes, listOk \in BOOLEAN, unreadable \in SUBSET DOMAIN Requirements :
          /\ CanCall
          /\ Cardinality(unreadable) <= 1
          /\ Called("DrmObject::updateProperties", p, <<p>>, "none",
                    [obj |-> Conn(p, 1), listOk |-> listOk, unreadable |-> unreadable],
                    ObjectUpdateProperties(Cur, Conn(p, 1), listOk, unreadable))
    \/ EventLoop
SpecDiscovery ==
    Start({NoCaps, [NoCaps EXCEPT !.edid = UNION {Connectors(p) : p \in Pipes}]})
    /\ [][NextDiscovery]_vars
\* --------------------------------------------------------------- GbmSurface
\* buffer objects the gbm surface can hand out
NumBos == 2
\* surface operations performed in one run
MaxSurfaceOps == 4
\* GbmSurface::releaseBuffer without the removeOne
SurfaceReleaseBufferKeepsEntry(U, b) ==
    [U EXCEPT !.boLocked = @ \ {U.bufs[b].bo},
              !.bufs[b].releases = @ + 1]
\* GbmSurface::releaseBuffer: gbm_surface_release_buffer, then
\* m_lockedBuffers.removeOne
SurfaceReleaseBuffer(U, b) ==
    LET At == {i \in DOMAIN U.locked : U.locked[i] = b}
        RemoveOne(q) == IF At = {} THEN q
                        ELSE LET i == CHOOSE i \in At : \A j \in At : i <= j
                             IN SubSeq(q, 1, i - 1) \o SubSeq(q, i + 1, Len(q))
    IN [U EXCEPT !.boLocked = @ \ {U.bufs[b].bo},
                 !.bufs[b].releases = @ + 1,
                 !.locked = RemoveOne(@)]
\* GbmBuffer::releaseBuffer: hands the buffer object back to the surface,
\* once
BufferReleaseBuffer(U, b) ==
    IF ~U.bufs[b].hasBo THEN U
    ELSE [SurfaceReleaseBuffer(U, b) EXCEPT !.bufs[b].hasBo = FALSE]
RECURSIVE DropUnheld(_, _)
\* QSharedPointer: a buffer held by nobody is destroyed, and releases itself
\* in its destructor
DropUnheld(U, b) ==
    IF b > Len(U.bufs) THEN U
    ELSE IF U.bufs[b].destroyed \/ U.bufs[b].held
            \/ b \in {U.currentBuffer, U.currentDrmBuffer}
         THEN DropUnheld(U, b + 1)
         ELSE DropUnheld([BufferReleaseBuffer(U, b) EXCEPT !.bufs[b].destroyed = TRUE], b + 1)
\* GbmSurface::swapBuffers and GbmSurface::swapBuffersForDrm; the result is
\* the new buffer, 0 for nullptr.  eglOk, lockOk, fbOk: eglSwapBuffers,
\* gbm_surface_lock_front_buffer and the framebuffer id of the new
\* DrmGbmBuffer; keep: the caller holds on to the result
SwapBuffers(U, forDrm, eglOk, lockOk, fbOk, keep) ==
    LET Free == (1..NumBos) \ U.boLocked
        b == Len(U.bufs) + 1
        Made == [U EXCEPT !.bufs = Append(@, [bo |-> CHOOSE o \in Free : TRUE, hasBo |-> TRUE,
                                              held |-> keep /\ (forDrm => fbOk),
                                              destroyed |-> FALSE, releases |-> 0]),
                          !.boLocked = @ \cup {CHOOSE o \in Free : TRUE},
                          !.currentBuffer = b]
        Locked(U1) == [U1 EXCEPT !.locked = Append(@, b)]
        Current(U1) == IF forDrm /\ fbOk
                       THEN DropUnheld([U1 EXCEPT !.currentDrmBuffer = b], 1)
                       ELSE U1
    IN IF ~eglOk \/ ~lockOk \/ Free = {} THEN Result(U, 0)
       ELSE Result(Current(Locked(DropUnheld(Made, 1))), IF forDrm /\ ~fbOk THEN 0 ELSE b)
RECURSIVE ReleaseAll(_, _)
\* the loop of ~GbmSurface over its copy of m_lockedBuffers
ReleaseAll(U, buffers) ==
    IF buffers = <<>> THEN U
    ELSE ReleaseAll(BufferReleaseBuffer(U, Head(buffers)), Tail(buffers))
\* GbmSurface::~GbmSurface
DestroySurface(U) ==
    DropUnheld([ReleaseAll(U, U.locked) EXCEPT !.alive = FALSE, !.currentBuffer = 0,
                                               !.currentDrmBuffer = 0], 1)
\* an operation on the surface or on one of its buffers
SurfaceCalled(op, arg, U, ret) ==
    /\ pc = "idle" /\ ops < MaxSurfaceOps
    /\ surface' = U
    /\ last' = [op |-> op, p |-> 0, batch |-> <<>>, mode |-> "none", arg |-> arg, ret |-> ret]
    /\ pc' = "returned"
    /\ ops' = ops + 1
    /\ UNCHANGED <<gpu, caps, active, primaryBuffer, oldTestBuffer, legacyNeedsModeset,
                   lastFlags, cursor, props, modeIndex, pendingModeIndex, bufCurrent, bufNext,
                   kern, pendingFlips, log>>
NextGbm ==
    \/ \E forDrm, eglOk, lockOk, fbOk, keep \in BOOLEAN :
          /\ surface.alive
          /\ ~forDrm => fbOk
          /\ \E r \in {SwapBuffers(surface, forDrm, eglOk, lockOk, fbOk, keep)} :
                SurfaceCalled(IF forDrm THEN "swapBuffersForDrm" ELSE "swapBuffers",
                              [egl |-> eglOk, lock |-> lockOk, fb |-> fbOk], r.st, r.ret)
    \/ \E b \in DOMAIN surface.bufs :
          /\ surface.bufs[b].held
          /\ SurfaceCalled("releaseBuffer", b, BufferReleaseBuffer(surface, b), TRUE)
    \/ \E b \in DOMAIN surface.bufs :
          /\ surface.bufs[b].held
          /\ SurfaceCalled("dropBuffer", b,
                           DropUnheld([surface EXCEPT !.bufs[b].held = FALSE], 1), TRUE)
    \/ /\ surface.alive
       /\ SurfaceCalled("~GbmSurface", 0, DestroySurface(surface), TRUE)
    \/ EventLoop
SpecGbm == Init /\ [][NextGbm]_vars
\* --------------------------------------------------- gamma ramp, by itself
\* every CRTC of the GPU has the Gamma_LUT property, or none has; any one of
\* the per-CRTC calls may fail
NextGamma ==
    \/ \E p \in Pipes : \E f \in TestFailsFor(p), failAt \in 0..TileCount(p) :
          /\ CanCall
          /\ Called("setGammaRamp", p, <<p>>, "none", [failAt |-> failAt, kernel |-> f],
                    SetGammaRamp(Cur, p, f, failAt))
    \/ EventLoop
SpecGamma ==
    Start({NoCaps, [NoCaps EXCEPT !.gammaLut = UNION {Crtcs(p) : p \in Pipes}]})
    /\ [][NextGamma]_vars
\* ------------------------------------------------ checkTestBuffer, by itself
\* a present of a buffer of the source size or of a stale size, setActive, and
\* checkTestBuffer called with or without an output and a GBM device
NextTestBuffer ==
    \/ \E p \in Pipes, fb \in ClientFbs :
       \E size \in {SourceSize(Cur, p), StaleSize}, f \in CommitFailsFor(p) :
          /\ CanCall
          /\ Called("present", p, <<p>>, "CommitWithPageflipEvent",
                    [fb |-> fb, size |-> size, fmt |-> FormatOf(fb)],
                    Present(Cur, p, [fb |-> fb, size |-> size, fmt |-> FormatOf(fb)], f, TRUE))
    \/ \E p \in Pipes, a \in BOOLEAN : DoSetActive(p, a)
    \/ \E p \in Pipes, hasOutput \in BOOLEAN, hasGbm \in BOOLEAN, ok \in BOOLEAN :
          /\ CanCall
          /\ Called("checkTestBuffer", p, <<p>>, "none",
                    [strategy |-> TestBufferStrategy(hasOutput, hasGbm),
                     output |-> hasOutput, gbm |-> hasGbm, kernel |-> ok],
                    CheckTestBuffer(Cur, p, ok))
    \/ EventLoop
SpecTestBuffer == Init /\ [][NextTestBuffer]_vars
\* -------------------------------------------------------------- properties
\* the operation op has just returned
Returned(op) == pc = "returned" /\ last.op = op
\* this step is a call of op: the unprimed variables are the state on entry,
\* the primed ones the state on return
Returns(op) == pc = "idle" /\ pc' = "returned" /\ last'.op = op
\* the pipelines of a batch
BatchOf(ps) == {ps[i] : i \in DOMAIN ps}
\* the positions of the log that hold a call of one kind
CallsOf(kind) == {i \in DOMAIN log : log[i].kind = kind}
\* the drmModeAtomicCommit calls without TEST_ONLY
RealCommits == {i \in CallsOf("AtomicCommit") : "TEST_ONLY" \notin log[i].arg.flags}
\* the drmModeAtomicCommit calls with TEST_ONLY
TestCommits == {i \in CallsOf("AtomicCommit") : "TEST_ONLY" \in log[i].arg.flags}

\* C1: in atomic mode, whenever commitPipelines(ps, mode) returns false, for
\* whatever reason, every property cell of every object of every pipeline of
\* ps has pending = current on return.
C1_RolledBackOnFailure ==
    (Returned("commitPipelines") /\ gpu.atomic /\ ~last.ret)
        => \A p \in BatchOf(last.batch) : \A c \in PipeCells(p) :
              props[c].pending = props[c].current

\* C2: whenever test() or commitPipelines returns false in atomic mode, the
\* primary buffer of every involved pipeline is the buffer it held on entry,
\* the empty one included: a substituted test buffer is never left in place.
C2_PrimaryBufferRestored ==
    [][((Returns("test") \/ Returns("commitPipelines")) /\ gpu.atomic /\ ~last'.ret)
          => \A p \in BatchOf(last'.batch) \cup {last'.p} :
                primaryBuffer'[p] = primaryBuffer[p]]_vars

\* a pipeline has adopted its pending values: commitPending on all of its
\* objects, and commit too unless the mode is Test
Adopted(S, p, mode) ==
    /\ \A c \in PipeCells(p) :
          /\ S.props[c].next = S.props[c].pending
          /\ mode # "Test" => S.props[c].current = S.props[c].next
    /\ \A c \in Connectors(p) : S.modeIndex[c] = S.pendingModeIndex[c]
    /\ mode # "Test" => \A pl \in PrimaryPlanes(p) : S.bufNext[pl] = S.primaryBuffer[p]

C4_RealCommitOnlyAfterTest ==
    gpu.atomic =>
        \A i \in RealCommits :
            /\ log[i].arg.mode # "Test"
            /\ i - 1 \in TestCommits
            /\ log[i - 1].ok
            /\ log[i - 1].arg.req = log[i].arg.req
            /\ log[i - 1].arg.batch = log[i].arg.batch

\* C4 happens: a real commit that carries property values was issued
C4_Witness ==
    /\ gpu.atomic /\ RealCommits # {}
    /\ \E i \in RealCommits : log[i].arg.req # {}

\* the commit attempts of the last operation: each starts with drmModeAtomicAlloc
Attempts == CallsOf("AtomicAlloc")
\* the attempt that starts at position i got its real commit accepted
AttemptSucceeded(i) ==
    \E j \in RealCommits : /\ j > i /\ log[j].ok
                           /\ ~\E k \in Attempts : i < k /\ k < j
\* the backend is EGLStream on the primary GPU
EglStreamOnPrimary == gpu.useEglStreams /\ gpu.eglBackend /\ gpu.primaryGpu

\* what holds of the attempts of an atomic present, whatever it returned
AtMostTwoAttempts ==
    /\ Cardinality(Attempts) <= 2
    /\ \A i, j \in Attempts : i < j =>
          /\ ~AttemptSucceeded(i)
          /\ \E u \in CallsOf("updateProperties") :
                i < u /\ u < j /\ log[u].arg.objs = AllObjects(last.p)
    /\ ~last.ret <=> (Cardinality(Attempts) = 2 /\ \A i \in Attempts : ~AttemptSucceeded(i))

\* C5: in atomic mode present makes at most two commit attempts,
\* the second only after a failed first one and after updateProperties on
\* every object of the pipeline; it returns false iff both attempts fail, and
\* true iff one of them succeeds or, with EGLStreams on the primary GPU, no
\* attempt was made at all.
C5_PresentRetriesOnce ==
    (Returned("present") /\ gpu.atomic) =>
        /\ AtMostTwoAttempts
        /\ last.ret <=> \/ \E i \in Attempts : AttemptSucceeded(i)
                        \/ Attempts = {} /\ EglStreamOnPrimary

\* C5, without the EGLStream shortcut: present returns true iff one of the
\* (at most two) attempts succeeds.
C5_TrueIffAnAttemptSucceeds ==
    (Returned("present") /\ gpu.atomic) =>
        /\ AtMostTwoAttempts
        /\ last.ret <=> \E i \in Attempts : AttemptSucceeded(i)

\* C5 happens: the first attempt failed, the properties were refreshed and
\* the second attempt succeeded
C5_Witness ==
    /\ Returned("present") /\ gpu.atomic /\ last.ret
    /\ Cardinality(Attempts) = 2
    /\ CallsOf("updateProperties") # {}

\* C6: with EGLStreams on the primary GPU and no cell of the pipeline with
\* pending # current, present(B) returns true and issues no DRM call at all;
\* in every other case the normal commit path is taken (atomic: a commit
\* attempt, legacy: drmModeSetCrtc or drmModePageFlip).
C6_EglStreamBypass ==
    [][Returns("present")
          => IF EglStreamOnPrimary
                /\ \A c \in PipeCells(last'.p) : props[c].pending = props[c].current
             THEN last'.ret /\ log' = <<>>
             ELSE /\ log' # <<>>
                  /\ log'[1].kind \in (IF gpu.atomic THEN {"AtomicAlloc"}
                                       ELSE {"SetCrtc", "PageFlip"})]_vars

\* C6 happens: present returned through the shortcut, the buffer stored and
\* nothing sent to the kernel
C6_Witness ==
    /\ Returned("present") /\ EglStreamOnPrimary /\ last.ret /\ log = <<>>
    /\ primaryBuffer[last.p] = last.arg

\* C7: present on a pipeline that setActive(false) made inactive returns true
\* and is a no-op: no kernel call, no change of the shadow state.
C7_InactivePresentIsNoOp ==
    [][(Returns("present") /\ ~active[last'.p])
          => /\ last'.ret
             /\ log' = <<>>
             /\ primaryBuffer' = primaryBuffer
             /\ props' = props
             /\ bufNext' = bufNext
             /\ lastFlags' = lastFlags]_vars

\* C8: every atomic commit stages, on every primary plane of every pipeline of
\* its batch, FB_ID 0 when the pipeline is inactive, whatever primary_buffer
\* holds, and the framebuffer of primary_buffer when it is active.
C8_FbIdFollowsActive ==
    \A i \in CallsOf("AtomicCommit") :
        \A p \in BatchOf(log[i].arg.batch) : \A pl \in PrimaryPlanes(p) :
            log[i].arg.fb[pl] = IF log[i].arg.active[p] THEN log[i].arg.primary[p].fb ELSE 0

\* C8 happens: a commit of an inactive pipeline that holds a buffer staged
\* FB_ID 0
C8_Witness ==
    \E i \in CallsOf("AtomicCommit") : \E p \in BatchOf(log[i].arg.batch) :
        /\ ~log[i].arg.active[p]
        /\ log[i].arg.primary[p].fb # 0
        /\ \A pl \in PrimaryPlanes(p) : log[i].arg.fb[pl] = 0

\* the connectors of a pipeline are as they were
ConnectorsUntouched(p) ==
    \A c \in Connectors(p) :
        /\ modeIndex'[c] = modeIndex[c]
        /\ pendingModeIndex'[c] = pendingModeIndex[c]
        /\ \A cell \in CellsOf(c) : props'[cell] = props[cell]

QuarterTurned(p) ==
    /\ gpu.atomic
    /\ \/ (props[<<Plane(p, 1), "Rotation">>].pending \div 2) % 2 = 1
       \/ (props[<<Plane(p, 1), "Rotation">>].pending \div 8) % 2 = 1

\* C10: in every reachable state sourceSize() is totalModeSize(modeIndex()) of
\* the first connector, width and height swapped iff the transformation
\* contains Rotate90 or Rotate270.
C10_SourceSizeTransposed ==
    \A p \in Pipes :
        LET size == TotalModeSize(p, pendingModeIndex[Conn(p, 1)])
        IN SourceSize(Cur, p) = IF QuarterTurned(p) THEN <<size[2], size[1]>> ELSE size

\* C10 happens: Rotate270 with a reflection swaps the sides, on a mode that
\* is not square
C10_Witness ==
    \E p \in Pipes :
        /\ gpu.atomic
        /\ props[<<Plane(p, 1), "Rotation">>].pending = 8 + 16
        /\ SourceSize(Cur, p) # TotalModeSize(p, pendingModeIndex[Conn(p, 1)])

\* C11: on both paths, when modeset(i) returns true modeIndex() is i
\* afterwards, and when it returns false modeIndex() is what it was before
\* the call.
C11_ModesetSetsOrKeepsModeIndex ==
    [][Returns("modeset")
          => IF last'.ret THEN ModeIndex(Cur', last'.p) = last'.arg
             ELSE ModeIndex(Cur', last'.p) = ModeIndex(Cur, last'.p)]_vars

\* the positions of the log where modeset fell back to Rotate0
SoftRetries == CallsOf("setPendingTransformation")

\* C12: an atomic modeset(i) with a transformation other than Rotate0 whose
\* first test the kernel rejects tries again with Rotate0, and when the
\* kernel accepts that test it returns true with modeIndex() = i and
\* transformation() = Rotate0; the second try is made only after a failed
\* first test and with a transformation that was not Rotate0; when the second
\* try fails too, modeset returns false with every pending cell rolled back.
C12_ModesetRetriesWithoutRotation ==
    [][(Returns("modeset") /\ gpu.atomic)
          => LET tests == {i \in DOMAIN log' : log'[i].kind = "AtomicCommit"}
                 first == CHOOSE i \in tests : \A j \in tests : i <= j
             IN /\ (Transformation(Cur, last'.p) # {"Rotate0"} /\ tests # {} /\ ~log'[first].ok)
                     => /\ SoftRetries' # {}
                        /\ (\E j \in tests : j > first /\ log'[j].ok)
                              => /\ last'.ret
                                 /\ ModeIndex(Cur', last'.p) = last'.arg
                                 /\ Transformation(Cur', last'.p) = {"Rotate0"}
                /\ \A u \in SoftRetries' :
                      /\ ~\E i \in tests : i < u /\ log'[i].ok
                      /\ log'[u].arg.from # {"Rotate0"}
                      /\ Cardinality(SoftRetries') = 1
                /\ (SoftRetries' # {} /\ ~last'.ret)
                     => \A c \in PipeCells(last'.p) : props'[c].pending = props'[c].current]_vars

\* the kernel rejected the TEST_ONLY commit the last operation ended with
TestRejected(l) ==
    /\ l # <<>>
    /\ l[Len(l)].kind = "AtomicCommit" /\ "TEST_ONLY" \in l[Len(l)].arg.flags
    /\ ~l[Len(l)].ok

\* C13: when the kernel's atomic test rejects the transformation,
\* setTransformation(t) returns false, transformation() is what it was before
\* the call and no cell of the pipeline has pending # current; when
\* setTransformation(t) returns true, transformation() is t.
C13_SetTransformationRollsBack ==
    [][Returns("setTransformation")
          => /\ TestRejected(log')
                  => /\ ~last'.ret
                     /\ Transformation(Cur', last'.p) = Transformation(Cur, last'.p)
                     /\ \A c \in PipeCells(last'.p) : props'[c].pending = props'[c].current
             /\ last'.ret => Transformation(Cur', last'.p) = last'.arg]_vars

\* C14: setOverscan(0) is always accepted: on a single-tile or a multi-tile
\* pipeline, with or without the overscan property, when the kernel accepts
\* the test it returns true, and without the property it stages nothing on
\* the connectors.
C14_ZeroOverscanAccepted ==
    [][(Returns("setOverscan") /\ last'.arg.overscan = 0 /\ last'.arg.kernel = NoFail)
          => /\ last'.ret
             /\ ~ConnHasOverscan(Conn(last'.p, 1))
                   => \A o \in Connectors(last'.p) : \A c \in CellsOf(o) :
                         props'[c].pending = props[c].pending]_vars

\* setOverscan refuses the argument outright
OverscanRefused(p, overscan) ==
    \/ overscan > 100
    \/ overscan # 0 /\ TileCount(p) > 1
    \/ overscan # 0 /\ ~ConnHasOverscan(Conn(p, 1))

\* C15: setOverscan(percent) returns false, with no kernel call and nothing
\* staged, when percent > 100, when percent # 0 on a multi-tile pipeline and
\* when percent # 0 without the overscan property; in every other case it
\* stages the overscan on the first connector and returns what test() returns.
C15_OverscanRefusedOrTested ==
    [][Returns("setOverscan")
          => IF OverscanRefused(last'.p, last'.arg.overscan)
             THEN ~last'.ret /\ log' = <<>> /\ props' = props
             ELSE LET staged == ConnSetOverscan(Cur, Conn(last'.p, 1), last'.arg.overscan,
                                                CurrentModeSize(Cur, Conn(last'.p, 1)))
                      tested == TestAll(staged, last'.p, last'.arg.kernel)
                  IN /\ last'.ret = tested.ret
                     /\ props' = tested.st.props
                     /\ log' = tested.st.log]_vars

\* this step is a call of op that follows a call of the same operation on the
\* same pipeline with the same arguments, nothing in between
Repeats(op) ==
    /\ pc = "returned" /\ last.op = op
    /\ pc' = "returned" /\ ops' = ops + 1
    /\ last'.op = op /\ last'.p = last.p /\ last'.arg = last.arg

\* C16: of two consecutive moveCursor(p) with the same p, both accepted by
\* the kernel and no updateProperties in between, the second sends nothing:
\* the pair causes one drmModeMoveCursor for every CRTC at most.
C16_MoveCursorIdempotent ==
    [][(Repeats("moveCursor") /\ last.arg.kernel /\ last.ret)
          => /\ log' = <<>>
             /\ last'.ret
             /\ \A c \in Crtcs(last.p) :
                   Cardinality({i \in CallsOf("MoveCursor") : log[i].arg.crtc = c}) <= 1]_vars

\* this step is a call of op, from the event loop or right after another call
Calls(op) == ops' = ops + 1 /\ pc' = "returned" /\ last'.op = op

\* C17: setCursor(b, h) sends nothing and returns true when dirty_bo is clear
\* and (b, h) are the stored buffer and hotspot, so a setCursor(b, h) repeated
\* right after a successful one sends nothing; a failed setCursor leaves the
\* stored buffer, hotspot and dirty_bo as they were.
C17_SetCursorIdempotent ==
    [][Calls("setCursor")
          => /\ (/\ ~cursor[last'.p].dirtyBo
                 /\ cursor[last'.p].buffer = last'.arg.buffer
                 /\ cursor[last'.p].hotspot = last'.arg.hotspot)
                   => (log' = <<>> /\ last'.ret)
             /\ (/\ pc = "returned" /\ last.op = "setCursor" /\ last.ret /\ last.p = last'.p
                 /\ last.arg.buffer = last'.arg.buffer /\ last.arg.hotspot = last'.arg.hotspot)
                   => (log' = <<>> /\ last'.ret)
             /\ ~last'.ret
                   => /\ cursor'[last'.p].buffer = cursor[last'.p].buffer
                      /\ cursor'[last'.p].hotspot = cursor[last'.p].hotspot
                      /\ cursor'[last'.p].dirtyBo = cursor[last'.p].dirtyBo]_vars

\* C17 happens: a cursor image that was set before is set again, and nothing
\* is sent
C17_Witness ==
    /\ Returned("setCursor") /\ last.ret /\ log = <<>> /\ ops >= 2
    /\ last.arg.buffer = 1 /\ last.arg.hotspot = <<1, 1>>
    /\ cursor[last.p].buffer = 1 /\ ~cursor[last.p].dirtyBo

\* the calls of a log that switch the output off or on: atomic commits and, on
\* the legacy path, the DPMS property
SwitchCalls(l) == {i \in DOMAIN l : l[i].kind \in {"AtomicCommit", "ConnectorSetProperty"}}

\* C18: when setActive(false) deactivates an active pipeline, the cursor is
\* cleared (drmModeSetCursor without a buffer) on every CRTC of the pipeline
\* before any commit that disables the primary plane is issued.
C18_CursorClearedBeforePlane ==
    [][(Returns("setActive") /\ active[last'.p] /\ ~last'.arg)
          => \A c \in Crtcs(last'.p) :
                \E i \in DOMAIN log' :
                    /\ log'[i].kind = "SetCursor" /\ log'[i].arg.crtc = c
                    /\ log'[i].arg.handle = 0
                    /\ \A j \in SwitchCalls(log') : i < j]_vars

\* C18 happens: an active pipeline was switched off by a real commit that
\* took the framebuffer from its plane
C18_Witness ==
    /\ Returned("setActive") /\ ~last.arg /\ last.ret /\ gpu.atomic /\ ~active[last.p]
    /\ \E j \in RealCommits : log[j].ok /\ <<<<Plane(last.p, 1), "FbId">>, 0>> \in log[j].arg.req

\* what holds of the commit ioctls of setActive(true): TEST_ONLY ones only,
\* one test, and one more after updateProperties iff the first test failed
ActivationOnlyTests ==
    LET ups == CallsOf("updateProperties")
    IN /\ RealCommits = {}
       /\ Cardinality(ups) <= 1
       /\ ups = {} => (Cardinality(TestCommits) = 1 /\ \A i \in TestCommits : log[i].ok)
       /\ \A u \in ups : /\ ~\E i \in TestCommits : i < u /\ log[i].ok
                         /\ Cardinality({i \in TestCommits : i < u}) <= 1
                         /\ Cardinality({i \in TestCommits : i > u}) <= 1
                         /\ Cardinality({i \in Attempts : i > u}) <= 1
       /\ last.ret <=> \E i \in TestCommits : log[i].ok

\* C19: in atomic mode setActive(false) issues its commit inside the call: a
\* TEST_ONLY one and, once that is accepted, the real one, with no second
\* try; setActive(true) issues only TEST_ONLY commits, one test and exactly
\* one more after updateProperties iff the first test failed.
C19_DisableCommitsEnableTests ==
    (Returned("setActive") /\ gpu.atomic)
        => IF last.arg THEN ActivationOnlyTests
           ELSE /\ CallsOf("updateProperties") = {}
                /\ Cardinality(Attempts) = 1
                /\ (\E i \in TestCommits : log[i].ok) => RealCommits # {}
                /\ last.ret <=> \E j \in RealCommits : log[j].ok

\* C19, with the real commit of setActive(false) issued whatever happens
\* before it.
C19_DisableAlwaysCommits ==
    (Returned("setActive") /\ gpu.atomic)
        => IF last.arg THEN ActivationOnlyTests
           ELSE RealCommits # {}

\* C19 happens: enabling needed its second test, after the property refresh
C19_Witness ==
    /\ Returned("setActive") /\ gpu.atomic /\ last.arg /\ last.ret
    /\ Cardinality(TestCommits) = 2 /\ CallsOf("updateProperties") # {}

\* some connector of the pipeline is not VRR-capable or some CRTC has no
\* VrrEnabled property
VrrUnavailable(p) ==
    \/ \E c \in Connectors(p) : ~ConnVrrCapable(c)
    \/ \E c \in Crtcs(p) : ~HasVrrProp(c)

\* C20: whenever some connector is not VRR-capable or a CRTC lacks the
\* VrrEnabled property, setSyncMode(Fixed) returns true and
\* setSyncMode(Adaptive) returns false.
C20_OnlyFixedWithoutVrr ==
    (Returned("setSyncMode") /\ VrrUnavailable(last.p))
        => (last.ret <=> last.arg.syncMode = "Fixed")

\* C21: setRgbRange(r) returns false and changes nothing when the first
\* connector has no Broadcast_RGB cell; whenever it returns true, r is in
\* the cell's enum map and the cell's staged value is the mapped kernel value
C21_RgbRangeSetOrRefused ==
    [][Returns("setRgbRange") =>
         /\ ~HasRgbRange(Conn(last'.p, 1)) =>
               /\ ~last'.ret
               /\ log' = <<>>
               /\ UNCHANGED <<props, modeIndex, pendingModeIndex, primaryBuffer, oldTestBuffer>>
         /\ last'.ret =>
               /\ HasRgbRange(Conn(last'.p, 1))
               /\ HasEnum(last'.arg.rgbRange)
               /\ props'[<<Conn(last'.p, 1), "Broadcast_RGB">>].pending
                     = caps.rgbEnums[last'.arg.rgbRange]]_vars

\* C22: in legacy mode a present on a fresh pipeline (no current buffer)
\* issues one drmModeSetCrtc with the buffer's framebuffer id, the connector
\* and the current mode; a present of a buffer of the current buffer's
\* pixel format issues drmModePageFlip with the buffer's framebuffer id and
\* PAGE_FLIP_EVENT and no drmModeSetCrtc, and when it succeeds the buffer is
\* the CRTC's next buffer; the flip event delivered through pageFlipped makes
\* that buffer the current buffer.
C22_LegacyFlipAlways ==
    [][/\ (Returns("present") /\ CurrentBuffer(Cur, last'.p) = NoBuffer) =>
            /\ Cardinality({i \in DOMAIN log' : log'[i].kind = "SetCrtc"}) = 1
            /\ \A i \in DOMAIN log' : log'[i].kind = "SetCrtc" =>
                  log'[i].arg = [crtc |-> Crtc(last'.p, 1), fb |-> last'.arg.fb,
                                 conn |-> Conn(last'.p, 1), mode |-> ModeIndex(Cur, last'.p)]
       /\ (/\ Returns("present") /\ CurrentBuffer(Cur, last'.p) # NoBuffer
           /\ CurrentBuffer(Cur, last'.p).fmt = last'.arg.fmt) =>
            /\ \A i \in DOMAIN log' : log'[i].kind # "SetCrtc"
            /\ Cardinality({i \in DOMAIN log' : log'[i].kind = "PageFlip"}) = 1
            /\ \A i \in DOMAIN log' : log'[i].kind = "PageFlip" =>
                  log'[i].arg = [crtc |-> Crtc(last'.p, 1), fb |-> last'.arg.fb,
                                 flags |-> {"PAGE_FLIP_EVENT"}]
            /\ last'.ret => /\ bufNext'[Crtc(last'.p, 1)] = last'.arg
                            /\ primaryBuffer'[last'.p] = last'.arg
       /\ (Returns("pageFlipped") /\ bufNext[Crtc(last'.p, 1)] = primaryBuffer[last'.p]) =>
            bufCurrent'[Crtc(last'.p, 1)] = primaryBuffer[last'.p]]_vars
\* C22, for a GPU that does not present through EGLStreams and, on the fresh
\* pipeline, a buffer of the pipeline's source size: the fresh present issues
\* one drmModeSetCrtc with the buffer's framebuffer id, the connector and the
\* current mode; a present of a buffer of the current buffer's pixel format
\* issues one drmModePageFlip with the buffer's framebuffer id and
\* PAGE_FLIP_EVENT and no drmModeSetCrtc, and when it succeeds the buffer is
\* the CRTC's next buffer; pageFlipped makes that buffer the current buffer.
C22_LegacyFlip ==
    [][/\ (/\ Returns("present") /\ CurrentBuffer(Cur, last'.p) = NoBuffer
           /\ ~UsesEglStreams /\ last'.arg.size = SourceSize(Cur, last'.p)) =>
            /\ Cardinality({i \in DOMAIN log' : log'[i].kind = "SetCrtc"}) = 1
            /\ \A i \in DOMAIN log' : log'[i].kind = "SetCrtc" =>
                  log'[i].arg = [crtc |-> Crtc(last'.p, 1), fb |-> last'.arg.fb,
                                 conn |-> Conn(last'.p, 1), mode |-> ModeIndex(Cur, last'.p)]
       /\ (/\ Returns("present") /\ CurrentBuffer(Cur, last'.p) # NoBuffer
           /\ ~UsesEglStreams /\ CurrentBuffer(Cur, last'.p).fmt = last'.arg.fmt) =>
            /\ \A i \in DOMAIN log' : log'[i].kind # "SetCrtc"
            /\ Cardinality({i \in DOMAIN log' : log'[i].kind = "PageFlip"}) = 1
            /\ \A i \in DOMAIN log' : log'[i].kind = "PageFlip" =>
                  log'[i].arg = [crtc |-> Crtc(last'.p, 1), fb |-> last'.arg.fb,
                                 flags |-> {"PAGE_FLIP_EVENT"}]
            /\ last'.ret => /\ bufNext'[Crtc(last'.p, 1)] = last'.arg
                            /\ primaryBuffer'[last'.p] = last'.arg
       /\ (Returns("pageFlipped") /\ bufNext[Crtc(last'.p, 1)] = primaryBuffer[last'.p]) =>
            bufCurrent'[Crtc(last'.p, 1)] = primaryBuffer[last'.p]]_vars
\* two buffers of one format were presented, the first on a fresh pipeline,
\* and the flip event made the second the current buffer
C22_Witness ==
    /\ Returned("pageFlipped") /\ ops = 3 /\ ~UsesEglStreams
    /\ ~legacyNeedsModeset[last.p]
    /\ bufCurrent[Crtc(last.p, 1)] = primaryBuffer[last.p]
    /\ primaryBuffer[last.p].fb = 2 /\ primaryBuffer[last.p].fmt = "XR24"

\* C23: isComplete of a tiled pipeline without EGLStreams is true iff every
\* cell (x, y) of the tile grid is the tile of some member connector; an
\* untiled pipeline and a tiled EGLStream pipeline are complete.
C23_CompleteIffAllTiles ==
    Returned("isComplete") =>
        (last.ret <=>
            \/ ~IsTiled(last.arg[1])
            \/ gpu.useEglStreams
            \/ \A x \in 0..(last.arg[1].num_tiles_x - 1), y \in 0..(last.arg[1].num_tiles_y - 1) :
                  \E i \in DOMAIN last.arg : last.arg[i].loc_x = x /\ last.arg[i].loc_y = y)

\* C24: an immutable cell has pending = current in every reachable state,
\* and a write to an immutable cell returns false and leaves the cell as it
\* was.
C24_ImmutableCellsNeverPending ==
    [][/\ \A c \in AllCells : IsImmutable(c) => props'[c].pending = props'[c].current
       /\ (/\ Returns("setPending")
           /\ <<Conn(last'.p, 1), last'.arg.prop>> \in AllCells
           /\ IsImmutable(<<Conn(last'.p, 1), last'.arg.prop>>)) =>
             /\ ~last'.ret
             /\ props'[<<Conn(last'.p, 1), last'.arg.prop>>]
                  = props[<<Conn(last'.p, 1), last'.arg.prop>>]]_vars

\* C25: within one pipeline at most one page flip is outstanding at any
\* time, under any interleaving of present calls and flip events.
C25_OneFlipOutstanding == \A p \in Pipes : pendingFlips[p] <= 1
\* C25, for a caller that presents only when no flip of the pipeline is
\* outstanding: such a present leaves at most one flip outstanding, queues
\* it only when it returns true and queues none for another pipeline; a
\* pageFlipped retires one flip of its pipeline.
C25_OneFlipPerPresent ==
    [][/\ (Returns("present") /\ pendingFlips[last'.p] = 0) =>
            /\ pendingFlips'[last'.p] <= 1
            /\ pendingFlips'[last'.p] = 1 => last'.ret
            /\ \A q \in Pipes \ {last'.p} : pendingFlips'[q] = pendingFlips[q]
       /\ Returns("pageFlipped") =>
            /\ pendingFlips[last'.p] > 0
            /\ pendingFlips' = [pendingFlips EXCEPT ![last'.p] = @ - 1]]_vars
\* a present queued the pipeline's only flip and pageFlipped retired it
C25_Witness ==
    /\ Returned("pageFlipped") /\ ops = 2
    /\ pendingFlips[last.p] = 0
    /\ bufCurrent[IF gpu.atomic THEN Plane(last.p, 1) ELSE Crtc(last.p, 1)] # NoBuffer

\* C26: in legacy mode test(pipelines) returns true, issues no kernel call
\* and changes no pipeline or property state, whatever is pending.
C26_LegacyTestIsTrue ==
    [][(Returns("test") /\ ~gpu.atomic) =>
          /\ last'.ret
          /\ log' = <<>>
          /\ UNCHANGED <<active, primaryBuffer, oldTestBuffer, legacyNeedsModeset, lastFlags,
                         cursor, props, modeIndex, pendingModeIndex, bufCurrent, bufNext, kern,
                         pendingFlips>>]_vars
\* a legacy test of a batch of two, with a mode staged that was never set
C26_Witness ==
    /\ Returned("test") /\ ~gpu.atomic /\ last.batch = <<1, 2>>
    /\ \E c \in DOMAIN modeIndex : pendingModeIndex[c] # modeIndex[c]

\* C27: a legacy modeset(i) that fails leaves the mode index and
\* primary_buffer as they were before the call, whether or not a test buffer
\* was substituted; one that succeeds clears legacy_needs_modeset and holds
\* the buffer in a buffer slot of the CRTC.
C27_LegacyModesetRestores ==
    [][(Returns("modeset") /\ ~gpu.atomic) =>
          IF last'.ret
          THEN /\ ~legacyNeedsModeset'[last'.p]
               /\ primaryBuffer'[last'.p] \in {bufCurrent'[Crtc(last'.p, 1)],
                                                bufNext'[Crtc(last'.p, 1)]}
          ELSE /\ ModeIndex(Cur', last'.p) = ModeIndex(Cur, last'.p)
               /\ primaryBuffer'[last'.p] = primaryBuffer[last'.p]]_vars

\* C28: a real commit carries PAGE_FLIP_EVENT iff the commit mode is
\* CommitWithPageflipEvent, a pipeline of the committed batch is active and
\* the GPU does not present through EGLStreams on the primary GPU; a
\* TEST_ONLY commit never carries it, nor does a commit of mode Test or Commit.
C28_PageFlipEventFlag ==
    \A i \in CallsOf("AtomicCommit") :
        IF "TEST_ONLY" \in log[i].arg.flags
        THEN "PAGE_FLIP_EVENT" \notin log[i].arg.flags
        ELSE "PAGE_FLIP_EVENT" \in log[i].arg.flags <=>
                /\ log[i].arg.mode = "CommitWithPageflipEvent"
                /\ ~UsesEglStreams
                /\ \E p \in BatchOf(log[i].arg.batch) : log[i].arg.active[p]
\* real commits with and without the event: of an active pipeline, and of
\* an inactive one in mode CommitWithPageflipEvent
C28_Witness ==
    /\ Returned("commitPipelines") /\ last.mode = "CommitWithPageflipEvent"
    /\ \E i \in RealCommits : "PAGE_FLIP_EVENT" \notin log[i].arg.flags
    /\ ~UsesEglStreams

\* the request of a commit holds a cell whose change needs a modeset
RequestNeedsModeset(req) ==
    \E e \in req :
        \/ e[1][1][1] = "conn" /\ e[1][2] = "CrtcId"
        \/ e[1][1][1] = "crtc" /\ e[1][2] \in {"Active", "ModeId"}
        \/ e[1][1][1] = "plane" /\ e[1][2] = "Rotation"

\* C29: every commit, of one pipeline or of a batch, carries exactly one of
\* ALLOW_MODESET and NONBLOCK: ALLOW_MODESET iff some object of the batch
\* needs a modeset, NONBLOCK otherwise.
C29_ModesetXorNonblock ==
    \A i \in CallsOf("AtomicCommit") :
        /\ "ALLOW_MODESET" \in log[i].arg.flags <=> RequestNeedsModeset(log[i].arg.req)
        /\ "NONBLOCK" \in log[i].arg.flags <=> ~RequestNeedsModeset(log[i].arg.req)

\* C30: after a successful atomic commitPipelines of mode Test every cell of
\* the batch has next = pending and its current value unchanged, and no
\* buffer slot changed; after a successful Commit or CommitWithPageflipEvent
\* every cell has current = next = pending and every primary plane's next
\* buffer is the pipeline's primary_buffer; in both cases old_test_buffer of
\* every pipeline of the batch is empty.
C30_SuccessPath ==
    [][(Returns("commitPipelines") /\ gpu.atomic /\ last'.ret) =>
          \A p \in BatchOf(last'.batch) :
             /\ oldTestBuffer'[p] = NoBuffer
             /\ IF last'.mode = "Test"
                THEN /\ \A c \in PipeCells(p) : /\ props'[c].next = props'[c].pending
                                                 /\ props'[c].current = props[c].current
                     /\ \A o \in Crtcs(p) \cup PrimaryPlanes(p) :
                           bufNext'[o] = bufNext[o] /\ bufCurrent'[o] = bufCurrent[o]
                ELSE /\ \A c \in PipeCells(p) : /\ props'[c].next = props'[c].pending
                                                 /\ props'[c].current = props'[c].next
                     /\ \A pl \in PrimaryPlanes(p) : bufNext'[pl] = primaryBuffer'[p]]_vars
\* a test of both pipelines succeeded and a tested cell still needs its commit
C30_Witness ==
    /\ Returned("commitPipelines") /\ gpu.atomic /\ last.ret
    /\ last.batch = <<1, 2>> /\ last.mode = "Test"
    /\ \E c \in PipeCells(2) : props[c].next = props[c].pending /\ PropNeedsCommit(Cur, c)

\* C31: after every successful real commit, every primary plane of an active
\* pipeline of the batch holds the pipeline's primary_buffer in its next
\* buffer slot, and every primary plane of an inactive one holds no buffer
\* there.
C31_PlaneSlotFollowsActive ==
    (pc = "returned" /\ gpu.atomic /\ last.ret /\ RealCommits # {}) =>
        \A p \in BatchOf(last.batch) : \A pl \in PrimaryPlanes(p) :
            bufNext[pl] = IF active[p] THEN primaryBuffer[p] ELSE NoBuffer

\* the rectangle the cells of a primary plane hold: source origin and size
\* (16.16 fixed point) and destination origin and size
StagedRect(pl) ==
    [n \in {"SrcX", "SrcY", "SrcW", "SrcH", "CrtcX", "CrtcY", "CrtcW", "CrtcH"} |->
        props[<<pl, n>>].pending]
\* the cells of a rectangle with source srcPos, srcSize (in pixels) and
\* destination dstPos, dstSize
RectCells(srcPos, srcSize, dstPos, dstSize) ==
    [n \in {"SrcX", "SrcY", "SrcW", "SrcH", "CrtcX", "CrtcY", "CrtcW", "CrtcH"} |->
        CASE n = "SrcX" -> srcPos[1] * 65536 [] n = "SrcY" -> srcPos[2] * 65536
          [] n = "SrcW" -> srcSize[1] * 65536 [] n = "SrcH" -> srcSize[2] * 65536
          [] n = "CrtcX" -> dstPos[1] [] n = "CrtcY" -> dstPos[2]
          [] n = "CrtcW" -> dstSize[1] [] n = "CrtcH" -> dstSize[2]]
\* the operation returned true and its last drmModeAtomicCommit was for batch ps
LastCommitFor(ps) ==
    /\ pc = "returned" /\ gpu.atomic /\ last.ret
    /\ \E i \in CallsOf("AtomicCommit") :
          /\ \A j \in CallsOf("AtomicCommit") : j <= i
          /\ log[i].arg.batch = ps

\* C32 as stated: after populateAtomicValues (its commit having succeeded, so
\* that the staged values stay), plane i of every tile i holds the source
\* rectangle tilePos -> the connector's own mode size and the destination
\* rectangle (0,0) -> that mode size.
C32_SourceIsModeSize ==
    \A ps \in {<<1>>, <<2>>, <<1, 2>>} : LastCommitFor(ps) =>
        \A p \in BatchOf(ps) : \A i \in Tiles(p) :
            StagedRect(Plane(p, i))
              = RectCells(TilePos(Cur, Conn(p, i)), CurrentModeSize(Cur, Conn(p, i)),
                          <<0, 0>>, CurrentModeSize(Cur, Conn(p, i)))
\* C32, with the rotation: the source rectangle has the mode size transposed
\* when the pipeline is turned by 90 or 270 degrees; the destination keeps
\* the mode size.  Two tiles of size 4x3 in a row give a source size of 8x3
\* when unrotated.
C32_SourceIsRotatedModeSize ==
    \A ps \in {<<1>>, <<2>>, <<1, 2>>} : LastCommitFor(ps) =>
        \A p \in BatchOf(ps) : \A i \in Tiles(p) :
            /\ StagedRect(Plane(p, i))
                 = RectCells(TilePos(Cur, Conn(p, i)),
                             IF Transformation(Cur, p) \cap {"Rotate90", "Rotate270"} # {}
                             THEN Transposed(CurrentModeSize(Cur, Conn(p, i)))
                             ELSE CurrentModeSize(Cur, Conn(p, i)),
                             <<0, 0>>, CurrentModeSize(Cur, Conn(p, i)))
            /\ (TileCount(p) = 2 /\ Transformation(Cur, p) = {"Rotate0"}
                /\ ModeIndex(Cur, p) = 0) => SourceSize(Cur, p) = <<8, 3>>
\* the two tiles of the tiled pipeline were committed: the second plane reads
\* from x = 4 of a source of size 8x3
C32_Witness ==
    /\ LastCommitFor(<<TiledPipe>>) /\ TileCount(TiledPipe) = 2
    /\ props[<<Plane(TiledPipe, 1), "SrcX">>].pending = 0
    /\ props[<<Plane(TiledPipe, 2), "SrcX">>].pending = 4 * 65536
    /\ SourceSize(Cur, TiledPipe) = <<8, 3>>

\* C33: checkTestBuffer of a pipeline that has a primary_buffer of the source
\* size, or is inactive, returns true and leaves primary_buffer and
\* old_test_buffer alone.  Otherwise it asks one allocator: the backend's test
\* frame with an EGL backend and an output, else a GBM buffer (XRGB8888) with
\* a GBM device at hand, else a dumb buffer; with a buffer from it,
\* primary_buffer is that new buffer, of a nonzero framebuffer id, and
\* old_test_buffer the previous primary_buffer; without one it returns false
\* and both are unchanged.
C33_CheckTestBufferFrame ==
    [][Returns("checkTestBuffer") =>
          IF \/ (primaryBuffer[last'.p] # NoBuffer
                 /\ primaryBuffer[last'.p].size = SourceSize(Cur, last'.p))
             \/ ~active[last'.p]
          THEN last'.ret /\ primaryBuffer' = primaryBuffer /\ oldTestBuffer' = oldTestBuffer
          ELSE /\ last'.arg.strategy =
                    IF gpu.eglBackend /\ last'.arg.output THEN "renderTestFrame"
                    ELSE IF gpu.eglBackend /\ last'.arg.gbm THEN "gbm_bo_create"
                    ELSE "DrmDumbBuffer"
               /\ last'.ret = last'.arg.kernel
               /\ IF last'.ret
                  THEN /\ primaryBuffer'[last'.p].fb \notin {0} \cup FbsInUse(Cur)
                       /\ primaryBuffer'[last'.p].size = SourceSize(Cur, last'.p)
                       /\ last'.arg.strategy = "gbm_bo_create"
                             => primaryBuffer'[last'.p].fmt = "XR24"
                       /\ oldTestBuffer'[last'.p] = primaryBuffer[last'.p]
                       /\ \A q \in Pipes \ {last'.p} :
                             /\ primaryBuffer'[q] = primaryBuffer[q]
                             /\ oldTestBuffer'[q] = oldTestBuffer[q]
                  ELSE primaryBuffer' = primaryBuffer /\ oldTestBuffer' = oldTestBuffer]_vars
\* a GBM test buffer replaced a presented buffer of a stale size, which is
\* kept as old_test_buffer
C33_Witness ==
    /\ Returned("checkTestBuffer") /\ last.ret /\ last.arg.strategy = "gbm_bo_create"
    /\ oldTestBuffer[last.p].fb \in ClientFbs /\ oldTestBuffer[last.p].size = StaleSize
    /\ primaryBuffer[last.p].fb \notin ClientFbs \cup {0}

\* C34: after DrmObject::updateProperties returns true, the cell of every
\* property definition is populated iff the kernel exposes a property of that
\* name, every populated cell's current is the kernel's value and every cell
\* required in the active mode (Required with atomic modesetting,
\* RequiredForLegacy without) is populated; it returns false iff the property
\* list cannot be read or a required cell is missing.
C34_UpdatePropertiesDiscovers ==
    Returned("DrmObject::updateProperties") =>
        /\ last.ret =>
             \A n \in DOMAIN Requirements :
                /\ <<last.arg.obj, n>> \in DOMAIN props <=> <<last.arg.obj, n>> \in DOMAIN kern
                /\ <<last.arg.obj, n>> \in DOMAIN props =>
                      props[<<last.arg.obj, n>>].current = kern[<<last.arg.obj, n>>]
                /\ Requirements[n] = (IF gpu.atomic THEN "Required" ELSE "RequiredForLegacy")
                      => <<last.arg.obj, n>> \in DOMAIN props
        /\ ~last.ret <=>
             \/ ~last.arg.listOk
             \/ \E n \in DOMAIN Requirements :
                   /\ Requirements[n] = (IF gpu.atomic THEN "Required" ELSE "RequiredForLegacy")
                   /\ <<last.arg.obj, n>> \notin DOMAIN props

\* C35: setActive(a) that returns false leaves isActive() as it was before the
\* call and, in atomic mode, no cell of the pipeline with pending # current;
\* one that returns true leaves isActive() = a.
C35_SetActiveAllOrNothing ==
    [][Returns("setActive") =>
          IF last'.ret THEN active'[last'.p] = last'.arg
          ELSE /\ active'[last'.p] = active[last'.p]
               /\ gpu.atomic => \A c \in PipeCells(last'.p) :
                                   props'[c].pending = props'[c].current]_vars

\* C36: in atomic mode, setSyncMode that returns false leaves no CRTC's
\* VrrEnabled cell with pending # current, also when only some CRTCs of the
\* pipeline have the property; setSyncMode(Adaptive) that returns true has
\* staged VrrEnabled = 1 on every CRTC (staging is what the atomic path does;
\* the legacy path writes the property to the kernel directly).
C36_SyncModeAllOrNothing ==
    [][(Returns("setSyncMode") /\ gpu.atomic) =>
          /\ ~last'.ret =>
                \A c \in Crtcs(last'.p) : HasVrrProp(c) =>
                    props'[<<c, "VrrEnabled">>].pending = props'[<<c, "VrrEnabled">>].current
          /\ (last'.ret /\ last'.arg.syncMode = "Adaptive") =>
                \A c \in Crtcs(last'.p) :
                    HasVrrProp(c) /\ props'[<<c, "VrrEnabled">>].pending = 1]_vars

\* C37: setGammaRamp stops at the first CRTC whose blob staging (atomic, with
\* Gamma_LUT) or drmModeCrtcSetGamma (fallback) fails and returns false; when
\* it returns false on the atomic path no CRTC's Gamma_LUT cell has
\* pending # current, the CRTCs staged before the failing one included; the
\* fallback ioctl is used iff the device is in legacy mode or the first CRTC
\* has no Gamma_LUT property.
C37_GammaRampAllOrNothing ==
    [][Returns("setGammaRamp") =>
          /\ \A i \in DOMAIN log' :
                (log'[i].kind \in {"CreatePropertyBlob", "CrtcSetGamma"} /\ ~log'[i].ok) =>
                    /\ ~last'.ret
                    /\ \A j \in DOMAIN log' : j > i =>
                          log'[j].kind \notin {"CreatePropertyBlob", "CrtcSetGamma"}
          /\ (~last'.ret /\ gpu.atomic /\ "GammaLut" \in PropsOf(Crtc(last'.p, 1))) =>
                \A c \in Crtcs(last'.p) :
                    props'[<<c, "GammaLut">>].pending = props'[<<c, "GammaLut">>].current
          /\ (\E i \in DOMAIN log' : log'[i].kind = "CrtcSetGamma")
                <=> (~gpu.atomic \/ "GammaLut" \notin PropsOf(Crtc(last'.p, 1)))
          /\ (\E i \in DOMAIN log' : log'[i].kind = "CreatePropertyBlob")
                <=> (gpu.atomic /\ "GammaLut" \in PropsOf(Crtc(last'.p, 1)))]_vars

\* C38: after any sequence of swapBuffers / swapBuffersForDrm / releaseBuffer
\* the locked set of the GbmSurface holds exactly the buffers that were
\* locked as front buffer and are not yet released, each once; every buffer
\* object the surface locked is released back to it exactly once, at the
\* latest when the surface is destroyed; and no entry of the locked set is a
\* destroyed buffer.
C38_LockedSet ==
    LET bufs == surface.bufs
        locked == surface.locked
    IN /\ {locked[i] : i \in DOMAIN locked} = {b \in DOMAIN bufs : bufs[b].releases = 0}
       /\ \A i, j \in DOMAIN locked : locked[i] = locked[j] => i = j
       /\ \A b \in DOMAIN bufs :
             /\ bufs[b].releases <= 1
             /\ (bufs[b].destroyed \/ ~surface.alive) => bufs[b].releases = 1
       /\ \A i \in DOMAIN locked : ~bufs[locked[i]].destroyed
       /\ \A b, c \in DOMAIN bufs :
             (b # c /\ bufs[b].releases = 0 /\ bufs[c].releases = 0) => bufs[b].bo # bufs[c].bo
\* the surface is destroyed while a caller still holds one of its buffers,
\* after another of its buffers was destroyed
C38_Witness ==
    /\ Returned("~GbmSurface")
    /\ Len(surface.bufs) >= 2
    /\ \E b \in DOMAIN surface.bufs : surface.bufs[b].held /\ ~surface.bufs[b].destroyed
    /\ \E b \in DOMAIN surface.bufs : surface.bufs[b].destroyed

\* C39: whenever setActive(true) returns true in atomic mode, also when the
\* success comes from the second test after updateProperties(), the values
\* that passed the test are the activation values: every CRTC's ACTIVE cell
\* is staged to 1 and every connector's and primary plane's CRTC_ID cell is
\* staged to the id of its paired CRTC.
C39_ActivationValuesTested ==
    [][(Returns("setActive") /\ gpu.atomic /\ last'.arg = TRUE /\ last'.ret) =>
          \A i \in Tiles(last'.p) :
              /\ props'[<<Crtc(last'.p, i), "Active">>].pending = 1
              /\ props'[<<Conn(last'.p, i), "CrtcId">>].pending = ObjId(Crtc(last'.p, i))
              /\ props'[<<Plane(last'.p, i), "CrtcId">>].pending = ObjId(Crtc(last'.p, i))]_vars

\* C40: m_oldTestBuffer is empty whenever no commit attempt is in progress:
\* after every public pipeline operation returns, atomic or legacy, success
\* or failure, so that a later rollback cannot restore a stale buffer.
C40_OldTestBufferEmpty ==
    pc = "returned" => \A p \in Pipes : oldTestBuffer[p] = NoBuffer
====
